---- MODULE Spec2Model ----
(***************************************************************************)
(* A model of the CAD-boundary-to-point-cloud pipeline: polyline           *)
(* densification, the bounded LAS reader, the grid neighbour query and Z   *)
(* assignment, the merged-cloud writer and the orchestrating run().        *)
(*                                                                         *)
(* Numbers.  The code computes in float64.  Its inputs here are whole      *)
(* numbers of a length unit that is a power of two of a metre (vertices,   *)
(* cloud rows, steps, radii), which float64 holds exactly.  The unit is    *)
(* 2^-30 m where the inputs drawn are of the size of the deduplication     *)
(* tolerance of densify_polyline (1e-9 m is 2^21 / 5^9 units: EpsFine),    *)
(* and 1 m in the pipeline runs (the tolerance is 1e-9 units: EpsMetre).   *)
(* A densified point is a record [x, y, d, fx, fy, hasz, z]: (x/d, y/d,    *)
(* z/d) is the point in exact arithmetic, hasz = FALSE stands for          *)
(* z = None, and fx, fy say how the code computed the floats of x and y:   *)
(* x0 + dx * (j / n), each operation rounded, which is within a few units  *)
(* of the last place of x/d but need not be the float nearest to it.       *)
(* Where a result of the code depends on which side of a value the float   *)
(* lies (a floor at a whole quotient, d2 <= r2 at d2 = r2, a rounding      *)
(* halfway between two results, two equal distances), the model computes   *)
(* the float, operation by operation, and decides as the code does;        *)
(* everywhere else the exact value and the float lead to the same result   *)
(* and the model uses the exact value.                                     *)
(***************************************************************************)
EXTENDS Integers, Sequences, FiniteSets, TLC

VARIABLES
    vertices,   \* densify_polyline: argument `vertices`
    step_m,     \* densify_polyline: argument `step_m`
    dens,       \* densify_polyline: what the call did ("idle" before the call)
    cloud_xyz,  \* surface_z_from_neighbors: argument `cloud_xyz`, rows [e, x, y, z]
    samples_xy, \* surface_z_from_neighbors: argument `samples_xy`, rows [e, x, y, d]
    radius_m,   \* surface_z_from_neighbors: argument `radius_m`
    z_k,        \* surface_z_from_neighbors: argument `k`
    quantile,   \* surface_z_from_neighbors: argument `quantile`, in 1/QDen
    fallback_z, \* surface_z_from_neighbors: argument `fallback_z`, in 1/QDen
    offset,     \* surface_z_from_neighbors: argument `offset`
    z_progress, \* surface_z_from_neighbors: argument `progress` is not None
    build,      \* what the numpy build does where the code leaves it open
    keys,       \* _surface_z_from_neighbors_grid: `keys`, one per cloud row
    zpc,        \* surface_z_from_neighbors: where the call is
    z_i,        \* _surface_z_from_neighbors_grid: loop index i (1-based)
    last_p,     \* _surface_z_from_neighbors_grid: `last_p`
    z_prog,     \* the percent values passed to `progress`, in order
    z_out,      \* _surface_z_from_neighbors_grid: `out`, one record per sample
    las_file,   \* the cloud file at las_path: [pts, has_rgb, scales, offsets],
                \* rows [e, x, y, z, rgb]
    rd_bbox,    \* read_las_points_in_bbox: argument `bbox`
    max_points, \* read_las_points_in_bbox: argument `max_points` ([some, n])
    rd_pc,      \* read_las_points_in_bbox: where the call is
    rd_c,       \* read_las_points_in_bbox: the chunk the iterator yields next
    rd_xs,      \* read_las_points_in_bbox: the rows kept so far (xs, ys, zs)
    rd_ret,     \* read_las_points_in_bbox: the array returned
    rd_err,     \* read_las_points_in_bbox: the message of the error raised
    rd_calls,   \* the calls of read_las_points_in_bbox started so far
    rd_prev,    \* the outcome of the call before this one
    dxf,        \* run: the modelspace of the drawing at dxf_path
    run_args,   \* run: the other arguments
    run_pc,     \* run: where the call is
    run_err,    \* run: the error raised
    progress_log, \* run: the percents passed to the progress callback
    polylines,  \* run: local `polylines`
    poly_layers, \* run: local `poly_layers`
    samples,    \* run: local `samples`
    sample_layers, \* run: local `sample_layers`
    xy_all,     \* run: local `xy_all`
    cad_pts,    \* run: local `pts`
    fs,         \* the files at out_xyz and at out_las
    mrg,        \* _write_combined_las_with_cad_points: arguments and locals
    cancel_at,  \* the loop the run was in when its caller asked to cancel it
    run_prev,   \* the outcomes of the earlier calls of run
    cli,        \* the command line: its flags, where main is, the call it makes
    gui,        \* the front-end: its thread and worker, the button, the signals
    wr          \* a writer called on its own: its arguments and its outcome

densVars == <<vertices, step_m, dens>>

zArgs == <<cloud_xyz, samples_xy, radius_m, z_k, quantile, fallback_z, offset,
           z_progress, build>>

zVars == <<zArgs, keys, zpc, z_i, last_p, z_prog, z_out>>

zRest == <<cloud_xyz, samples_xy, radius_m, z_k, quantile, fallback_z, offset,
           z_progress, keys, zpc, z_i, last_p, z_prog, z_out>>

rdArgs == <<las_file, rd_bbox, max_points>>

rdLocals == <<rd_pc, rd_c, rd_xs, rd_ret, rd_err>>

rdVars == <<rdArgs, rdLocals, rd_calls, rd_prev>>

runLocals == <<polylines, poly_layers, samples, sample_layers, xy_all, cad_pts>>

runVars == <<dxf, run_args, run_pc, run_err, progress_log, runLocals, fs, mrg, cancel_at,
             run_prev, cli, gui, wr>>

vars == <<densVars, zVars, rdVars, runVars>>

----------------------------------------------------------------------------
(* Bounds of the inputs drawn.                                             *)
MaxX == 3
MaxY == 1
MaxVerts == 3
MaxStep == 2
MaxGX == 1
MaxGY == 1
MaxCloud == 2
MaxR == 2
MaxSrc == 3
MaxSrcX == 3
MaxCap == 2
MaxCalls == 2
ChunkSize == 2

(* The tolerance 1e-9 m of the deduplication pass, in units of 2^-30 m     *)
(* (1e-9 * 2^30 = 2^21 / 5^9) and in metres.                               *)
EpsFine == [n |-> 2097152, d |-> 1953125]

EpsMetre == [n |-> 1, d |-> 1000000000]

----------------------------------------------------------------------------
(* Arithmetic helpers.                                                     *)
Abs(a) == IF a < 0 THEN 0 - a ELSE a

Max2(a, b) == IF a >= b THEN a ELSE b

Min2(a, b) == IF a <= b THEN a ELSE b

RECURSIVE GCD(_, _)
GCD(a, b) == IF b = 0 THEN a ELSE GCD(b, a % b)

----------------------------------------------------------------------------
(* float64 arithmetic, for the results of the code that depend on the      *)
(* rounding of a float.                                                    *)
(*                                                                         *)
(* Whole numbers beyond 2^31: the digits in base 2^15, the least           *)
(* significant first, no zero at the end; <<>> is 0.                       *)
RECURSIVE Pow2(_)
Pow2(k) == IF k = 0 THEN 1 ELSE 2 * Pow2(k - 1)

LBase == Pow2(15)

RECURSIVE BitLen(_)
BitLen(i) == IF i = 0 THEN 0 ELSE 1 + BitLen(i \div 2)

RECURSIVE Limbs(_)
Limbs(n) == IF n = 0 THEN <<>> ELSE <<n % LBase>> \o Limbs(n \div LBase)

RECURSIVE LToInt(_)
LToInt(a) == IF a = <<>> THEN 0 ELSE a[1] + LBase * LToInt(Tail(a))

RECURSIVE LTrim(_)
LTrim(a) ==
    IF a = <<>> \/ a[Len(a)] # 0 THEN a ELSE LTrim(SubSeq(a, 1, Len(a) - 1))

LDigit(a, i) == IF i <= Len(a) THEN a[i] ELSE 0

RECURSIVE LAddFrom(_, _, _, _)
LAddFrom(a, b, i, c) ==
    IF i > Len(a) /\ i > Len(b) THEN (IF c = 0 THEN <<>> ELSE <<c>>)
    ELSE LET s == LDigit(a, i) + LDigit(b, i) + c
         IN  <<s % LBase>> \o LAddFrom(a, b, i + 1, s \div LBase)

LAdd(a, b) == LAddFrom(a, b, 1, 0)

(* a - b for a >= b                                                        *)
RECURSIVE LSubFrom(_, _, _, _)
LSubFrom(a, b, i, c) ==
    IF i > Len(a) THEN <<>>
    ELSE LET s == LDigit(a, i) - LDigit(b, i) - c
         IN  <<(s + LBase) % LBase>> \o LSubFrom(a, b, i + 1, IF s < 0 THEN 1 ELSE 0)

LSub(a, b) == LTrim(LSubFrom(a, b, 1, 0))

RECURSIVE LCmpFrom(_, _, _)
LCmpFrom(a, b, i) ==
    IF i = 0 THEN 0
    ELSE IF a[i] # b[i] THEN (IF a[i] > b[i] THEN 1 ELSE 0 - 1)
    ELSE LCmpFrom(a, b, i - 1)

(* The sign of a - b                                                       *)
LCmp(a, b) ==
    IF Len(a) # Len(b) THEN (IF Len(a) > Len(b) THEN 1 ELSE 0 - 1)
    ELSE LCmpFrom(a, b, Len(a))

(* a * k for a digit k                                                     *)
RECURSIVE LMulDigitFrom(_, _, _, _)
LMulDigitFrom(a, k, i, c) ==
    IF i > Len(a) THEN (IF c = 0 THEN <<>> ELSE <<c>>)
    ELSE LET s == a[i] * k + c
         IN  <<s % LBase>> \o LMulDigitFrom(a, k, i + 1, s \div LBase)

LMulDigit(a, k) == IF k = 0 THEN <<>> ELSE LMulDigitFrom(a, k, 1, 0)

LShiftDigits(a, n) == IF a = <<>> THEN <<>> ELSE [i \in 1..n |-> 0] \o a

RECURSIVE LMulFrom(_, _, _)
LMulFrom(a, b, i) ==
    IF i > Len(b) THEN <<>>
    ELSE LAdd(LShiftDigits(LMulDigit(a, b[i]), i - 1), LMulFrom(a, b, i + 1))

LMul(a, b) == LMulFrom(a, b, 1)

LBitLen(a) == IF a = <<>> THEN 0 ELSE 15 * (Len(a) - 1) + BitLen(a[Len(a)])

(* a * 2^k                                                                 *)
LShl(a, k) == LShiftDigits(LMulDigit(a, Pow2(k % 15)), k \div 15)

(* a / d for a digit d > 0: the quotient's digits from digit i down, with  *)
(* the remainder, r the remainder of the digits above i                    *)
RECURSIVE LDivDigitFrom(_, _, _, _)
LDivDigitFrom(a, d, i, r) ==
    IF i = 0 THEN [q |-> <<>>, r |-> r]
    ELSE LET s == r * LBase + a[i]
             rest == LDivDigitFrom(a, d, i - 1, s % d)
         IN  [q |-> Append(rest.q, s \div d), r |-> rest.r]

LDivDigit(a, d) ==
    LET qr == LDivDigitFrom(a, d, Len(a), 0)
    IN  [q |-> LTrim(qr.q), r |-> qr.r]

(* floor(a / 2^k) and a mod 2^k                                            *)
LShr(a, k) ==
    IF k \div 15 >= Len(a) THEN <<>>
    ELSE LDivDigit(SubSeq(a, k \div 15 + 1, Len(a)), Pow2(k % 15)).q

LLow(a, k) ==
    IF k \div 15 >= Len(a) THEN a
    ELSE LTrim(Append(SubSeq(a, 1, k \div 15), a[k \div 15 + 1] % Pow2(k % 15)))

LBit(a, i) == (LDigit(a, i \div 15 + 1) \div Pow2(i % 15)) % 2

(* a / b for b > 0, bit by bit from bit i of a down: q and r of the bits   *)
(* above i                                                                 *)
RECURSIVE LDivModFrom(_, _, _, _, _)
LDivModFrom(a, b, i, q, r) ==
    IF i < 0 \/ Len(q) < 0 THEN [q |-> q, r |-> r]
    ELSE LET r2 == LAdd(LAdd(r, r), IF LBit(a, i) = 1 THEN <<1>> ELSE <<>>)
             ge == LCmp(r2, b) >= 0
         IN  LDivModFrom(a, b, i - 1,
                         LAdd(LAdd(q, q), IF ge THEN <<1>> ELSE <<>>),
                         IF ge THEN LSub(r2, b) ELSE r2)

LDivMod(a, b) ==
    IF Len(b) = 1
    THEN LET qr == LDivDigit(a, b[1]) IN [q |-> qr.q, r |-> Limbs(qr.r)]
    ELSE LDivModFrom(a, b, LBitLen(a) - 1, <<>>, <<>>)

(* A float64: s * m * 2^e, s the sign, m a whole number below 2^53 (2^53   *)
(* itself after a rounding up), <<>> for 0: a zero has its sign too, -0.0  *)
(* is [s |-> -1, m |-> <<>>].  No input here is near the ends of the       *)
(* exponent range.                                                         *)
FromInt(k) == [s |-> IF k < 0 THEN 0 - 1 ELSE 1,
               m |-> Limbs(IF k < 0 THEN 0 - k ELSE k), e |-> 0]


(* The same float with an odd m                                            *)
RECURSIVE Odd(_)
Odd(x) ==
    IF x.m = <<>> THEN [s |-> x.s, m |-> <<>>, e |-> 0]
    ELSE IF x.m[1] = 0 THEN Odd([x EXCEPT !.m = Tail(x.m), !.e = x.e + 15])
    ELSE IF x.m[1] % 2 = 0 THEN Odd([x EXCEPT !.m = LShr(x.m, 1), !.e = x.e + 1])
    ELSE x

(* q or q + 1: c is the sign of what was cut off q less one half, and of  *)
(* two equally near the even one is taken                                  *)
LNearest(q, c) ==
    IF c > 0 \/ (c = 0 /\ LBit(q, 0) = 1) THEN LAdd(q, <<1>>) ELSE q

(* z with the k lowest bits of its m rounded away                          *)
RoundBits(z, k) ==
    IF k <= 0 THEN Odd(z)
    ELSE Odd([s |-> z.s,
              m |-> LNearest(LShr(z.m, k),
                             LCmp(LLow(z.m, k), LShl(<<1>>, k - 1))),
              e |-> z.e + k])

(* The float64 nearest to z = s * m * 2^e, the even one of two equally     *)
(* near.                                                                   *)
Round53(z) == RoundBits(z, LBitLen(z.m) - 53)

(* The sum before its rounding: of two zeros of one sign the zero of that  *)
(* sign, and +0.0 where the two cancel                                     *)
FSumAt(sx, mx, sy, my, e) ==
    LET c == LCmp(mx, my)
    IN  IF sx = sy THEN [s |-> sx, m |-> LAdd(mx, my), e |-> e]
        ELSE IF c = 0 THEN [s |-> 1, m |-> <<>>, e |-> 0]
        ELSE IF c > 0 THEN [s |-> sx, m |-> LSub(mx, my), e |-> e]
        ELSE [s |-> sy, m |-> LSub(my, mx), e |-> e]

FSum(x, y) ==
    LET e == IF x.e <= y.e THEN x.e ELSE y.e
    IN  FSumAt(x.s, LShl(x.m, x.e - e), y.s, LShl(y.m, y.e - e), e)

FNeg(x) == [x EXCEPT !.s = 0 - x.s]

FAdd(x, y) == Round53(FSum(x, y))

FSub(x, y) == FAdd(x, FNeg(y))

(* -1, 0 or 1 as z is below 0, a zero of either sign, or above 0           *)
Sign(z) == IF z.m = <<>> THEN 0 ELSE z.s

(* The sign of x - y                                                       *)
FCmp(x, y) == Sign(FSum(x, FNeg(y)))

FMul(x, y) == Round53([s |-> x.s * y.s, m |-> LMul(x.m, y.m), e |-> x.e + y.e])

(* x / y, y # 0: 56 bits of the quotient and one more that says whether    *)
(* anything is left, rounded                                               *)
Sticky(qr) == LAdd(LAdd(qr.q, qr.q), IF qr.r = <<>> THEN <<>> ELSE <<1>>)

FDiv(x, y) ==
    IF x.m = <<>> THEN [x EXCEPT !.s = x.s * y.s]
    ELSE LET d == LBitLen(y.m) + 56 - LBitLen(x.m)
             sh == IF d > 0 THEN d ELSE 0
         IN  Round53([s |-> x.s * y.s,
                      m |-> Sticky(LDivMod(LShl(x.m, sh), y.m)),
                      e |-> x.e - sh - y.e - 1])

(* int(math.floor(x)), for a floor below 2^31                              *)
FFloor(x) ==
    IF x.m = <<>> THEN 0
    ELSE IF x.e >= 0 THEN x.s * LToInt(LShl(x.m, x.e))
    ELSE LET q == LToInt(LShr(x.m, 0 - x.e))
             whole == LLow(x.m, 0 - x.e) = <<>>
         IN  IF x.s > 0 THEN q ELSE IF whole THEN 0 - q ELSE 0 - q - 1

(* The sign of x - n / d, d > 0                                            *)
FCmpRat(x, n, d) ==
    FCmp([x EXCEPT !.m = LMul(x.m, Limbs(d))], FromInt(n))

(* np.round(x): the whole number nearest to x, the even one of two         *)
(* q or q + 1: c is the sign of the number less q + 1/2, and of two        *)
(* equally near the even one is taken                                      *)
Nearest(q, c) ==
    IF c < 0 THEN q ELSE IF c > 0 THEN q + 1
    ELSE IF q % 2 = 0 THEN q ELSE q + 1

FRoundFrom(x, f) == Nearest(f, FCmpRat(x, 2 * f + 1, 2))

FRound(x) == FRoundFrom(x, FFloor(x))

(* How a float was computed: a + b * (j / n) of whole numbers, each        *)
(* operation rounded (densify.py 29-31); a whole number k is Whole(k).     *)
Whole(k) == [a |-> k, b |-> 0, j |-> 0, n |-> 1]

(* x0 + dx * t of densify.py 29-31 for t = j / n: a whole number when      *)
(* t = 0.0 or dx = 0.0; j / n in lowest terms has the same float.          *)
Via(a, b, j, n) ==
    IF b = 0 \/ j = 0 THEN Whole(a)
    ELSE LET g == GCD(j, n)
         IN  [a |-> a, b |-> b, j |-> j \div g, n |-> n \div g]

(* The float is the exact value: a whole number, or a multiple of a power  *)
(* of two (the numbers here are far below 2^53).                           *)
IsExact(f) == f.b = 0 \/ f.j = 0 \/ f.n = Pow2(BitLen(f.n) - 1)

Float(f) ==
    IF f.b = 0 \/ f.j = 0 THEN FromInt(f.a)
    ELSE FAdd(FromInt(f.a), FMul(FromInt(f.b), FDiv(FromInt(f.j), FromInt(f.n))))

----------------------------------------------------------------------------
(* A rational point in lowest terms.                                       *)
Norm(p) ==
    LET g == GCD(GCD(Abs(p.x), Abs(p.y)), GCD(Abs(p.z), p.d))
    IN  [x |-> p.x \div g, y |-> p.y \div g, d |-> p.d \div g,
         fx |-> p.fx, fy |-> p.fy, hasz |-> p.hasz, z |-> p.z \div g]

Vertex(x, y, hasz, z) ==
    [x |-> x, y |-> y, d |-> 1, fx |-> Whole(x), fy |-> Whole(y),
     hasz |-> hasz, z |-> z]

----------------------------------------------------------------------------
(* densify_polyline                                                        *)

(* A slip in the ratio: ceil(step_m / seg_len) in place of                 *)
(* ceil(seg_len / step_m).                                                 *)
SegCountInverted(len2, step) ==
    CHOOSE n \in 1..(step + 1) :
        /\ n * n * len2 >= step * step
        /\ n = 1 \/ (n - 1) * (n - 1) * len2 < step * step

(* n = max(1, int(math.ceil(seg_len / step_m))), seg_len = sqrt(len2), for *)
(* len2 and step whole numbers of units: the least n >= 1 with             *)
(* n * step_m >= seg_len.  The float quotient is a whole number exactly    *)
(* when the exact one is (the square root of a square and the quotient of  *)
(* two whole numbers are exact), and is otherwise farther from every whole *)
(* number than its rounding error.                                         *)
SegCount(len2, step) ==
    CHOOSE n \in 1..(len2 + 1) :
        /\ n * n * step * step >= len2
        /\ n = 1 \/ (n - 1) * (n - 1) * step * step < len2

(* The point at t = j / n of the segment v0 -> v1, (x0 + dx * t,           *)
(* y0 + dy * t, zt); z only when both ends have one.                       *)
Interp(v0, v1, j, n) ==
    LET both == v0.hasz /\ v1.hasz
    IN  Norm([x |-> v0.x * n + (v1.x - v0.x) * j,
              y |-> v0.y * n + (v1.y - v0.y) * j,
              d |-> n,
              fx |-> Via(v0.x, v1.x - v0.x, j, n),
              fy |-> Via(v0.y, v1.y - v0.y, j, n),
              hasz |-> both,
              z |-> IF both THEN v0.z * n + (v1.z - v0.z) * j ELSE 0])

(* The points one segment contributes: none when its planar length is 0,   *)
(* else those at j = 0 .. n-1.                                             *)
SegPoints(v0, v1, step) ==
    LET dx == v1.x - v0.x
        dy == v1.y - v0.y
        len2 == dx * dx + dy * dy
    IN  IF len2 = 0 THEN <<>>
        ELSE LET n == SegCount(len2, step)
             IN  [j \in 1..n |-> Interp(v0, v1, j - 1, n)]

RECURSIVE Emitted(_, _, _)
Emitted(vs, i, step) ==
    IF i >= Len(vs) THEN <<>>
    ELSE SegPoints(vs[i], vs[i + 1], step) \o Emitted(vs, i + 1, step)

(* abs(a.x - b.x) > 1e-9 or abs(a.y - b.y) > 1e-9: a difference m / dd     *)
(* exceeds eps.n / eps.d when the whole number m exceeds the whole part of *)
(* eps.n * dd / eps.d.                                                     *)
FarApart(a, b, eps) ==
    \/ Abs(a.x * b.d - b.x * a.d) > (eps.n * a.d * b.d) \div eps.d
    \/ Abs(a.y * b.d - b.y * a.d) > (eps.n * a.d * b.d) \div eps.d

RECURSIVE Dedup(_, _, _)
Dedup(out, kept, eps) ==
    IF out = <<>> THEN kept
    ELSE IF kept = <<>> \/ FarApart(kept[Len(kept)], Head(out), eps)
         THEN Dedup(Tail(out), Append(kept, Head(out)), eps)
         ELSE Dedup(Tail(out), kept, eps)

DensifyOut(vs, step) == Append(Emitted(vs, 1, step), vs[Len(vs)])

densify_polyline(vs, step, eps) ==
    IF Len(vs) < 2 THEN [status |-> "ok", pts |-> vs]
    ELSE IF step <= 0 THEN [status |-> "ValueError", pts |-> <<>>]
    ELSE [status |-> "ok", pts |-> Dedup(DensifyOut(vs, step), <<>>, eps)]

----------------------------------------------------------------------------
(* surface_z_from_neighbors / _surface_z_from_neighbors_grid               *)
(*                                                                         *)
(* A coordinate far from the origin is written [e, x]: it stands for       *)
(* e * 2^32 * cell + x, cell being the search radius, so that its cell     *)
(* index floor(. / cell) is e * 2^32 + floor(x / cell): outside the signed *)
(* 32-bit range exactly when e # 0.  Only the x axis carries an e.         *)
(* Elevations returned are in units of 1/QDen, so that the quantiles       *)
(* 0.10, 0.5 and 0.95 of integer elevations are exact.                     *)

QDen == 20

Int32Max == 2147483647

Int32Min == 0 - Int32Max - 1

(* What a float -> int32 cast does with a value outside the int32 range    *)
(* (undefined in C): the x86 "integer indefinite" value, saturation, or    *)
(* the low 32 bits.                                                        *)
CastBuilds == {"indefinite", "saturate", "wrap"}

(* The stream of np.random.default_rng: which indices a generator in a     *)
(* given state draws, and in which order, is a fixed function of the numpy *)
(* build.  `rng` holds what the build has drawn so far, by the state of    *)
(* the generator and the arguments of the draw; a build that has drawn     *)
(* nothing yet holds nothing.                                              *)
NoDraws == [key \in {} |-> <<>>]

(* np.argpartition keeps, of rows of equal distance, those its selection   *)
(* algorithm happens to leave in front (unspecified): which, is a function *)
(* of the arrays it is given and of the numpy build.  `part` holds what    *)
(* the build has returned so far, by the arrays of the call; a build that  *)
(* has partitioned nothing yet holds nothing.                              *)
NoPartitions == [key \in {} |-> {}]

Builds == [cast : CastBuilds, rng : {NoDraws}, part : {NoPartitions}]

(* int(math.floor(sx / cell)) for the float sx of x = [e, xn / d], which   *)
(* was computed as f says.  Where xn / d is no whole multiple of cell,     *)
(* the float quotient is farther from a whole number than sx and the       *)
(* quotient are rounded, and its floor is the exact floor; where it is     *)
(* one, sx may lie below it, and the float quotient decides.               *)
CellIndex(e, xn, d, f, cell) ==
    [e |-> e,
     i |-> IF xn % (d * cell) = 0 /\ ~IsExact(f)
           THEN FFloor(FDiv(Float(f), FromInt(cell)))
           ELSE xn \div (d * cell)]

(* np.floor(...).astype(np.int32)                                          *)
AsInt32(idx, cast) ==
    IF idx.e = 0 THEN idx.i
    ELSE CASE cast = "indefinite" -> Int32Min
           [] cast = "saturate" -> IF idx.e > 0 THEN Int32Max ELSE Int32Min
           [] OTHER -> idx.i

(* keys = (ix.astype(np.int64) << 32) ^ (iy.astype(np.int64) & 0xFFFFFFFF) *)
(* as the pair <<high 32 bits, low 32 bits>>, both read as signed.         *)
CloudKey(p, cell, cast) ==
    <<AsInt32(CellIndex(p.e, p.x, 1, Whole(p.x), cell), cast),
      AsInt32(CellIndex(0, p.y, 1, Whole(p.y), cell), cast)>>

CloudKeys(cloud, cell, cast) ==
    [j \in 1..Len(cloud) |-> CloudKey(cloud[j], cell, cast)]

(* kkey = (np.int64(cx) << 32) ^ (np.int64(cy) & 0xFFFFFFFF): the shift    *)
(* drops the bits of cx above the low 32.                                  *)
QueryKey(cx, cy) == <<cx.i, cy.i>>

(* _cell_indices                                                           *)
CellIndices(ks, kkey) == { j \in 1..Len(ks) : ks[j] = kkey }

(* ids_all: the rows of the 3 x 3 cells around the sample's cell           *)
IdsAll(ks, s, cell) ==
    LET cx == CellIndex(s.e, s.x, s.d, s.fx, cell)
        cy == CellIndex(0, s.y, s.d, s.fy, cell)
    IN  UNION { CellIndices(ks, QueryKey([e |-> cx.e, i |-> cx.i + dxc],
                                          [e |-> 0, i |-> cy.i + dyc]))
                : dxc \in {0 - 1, 0, 1}, dyc \in {0 - 1, 0, 1} }

(* d2 * d^2 for the sample s = (x/d, y/d) and a cloud row with the same e  *)
D2(p, s) ==
    (p.x * s.d - s.x) * (p.x * s.d - s.x) + (p.y * s.d - s.y) * (p.y * s.d - s.y)

(* d2 = ddx * ddx + ddy * ddy of the code, ddx = pts[:, 0] - sx, in        *)
(* float64                                                                 *)
FSquares(ddx, ddy) == FAdd(FMul(ddx, ddx), FMul(ddy, ddy))

FD2(p, s) ==
    FSquares(FSub(FromInt(p.x), Float(s.fx)), FSub(FromInt(p.y), Float(s.fy)))

(* The floats of the sample are its exact coordinates                      *)
ExactSample(s) == IsExact(s.fx) /\ IsExact(s.fy)

(* d2 <= r2 for a whole radius.  With exact floats the differences, their  *)
(* squares, the sum and r * r are exact.  Otherwise d2 is rounded, by far  *)
(* less than the exact d2 differs from r2 unless the two are equal, where  *)
(* the float d2 decides.  Rows whose e differs are 2^32 cells apart.       *)
WithinRadius(p, s, r) ==
    /\ p.e = s.e
    /\ IF D2(p, s) = r * r * s.d * s.d /\ ~ExactSample(s)
       THEN FCmp(FD2(p, s), FromInt(r * r)) <= 0
       ELSE D2(p, s) <= r * r * s.d * s.d

IdsIn(cloud, ks, s, r) == { j \in IdsAll(ks, s, r) : WithinRadius(cloud[j], s, r) }

(* d2[a] - d2[b] of the code has this sign: that of the exact difference,  *)
(* and where that is 0 and the floats of the sample are rounded, that of   *)
(* the float difference                                                    *)
CmpD2(cloud, s, a, b) ==
    IF D2(cloud[a], s) # D2(cloud[b], s)
    THEN (IF D2(cloud[a], s) < D2(cloud[b], s) THEN 0 - 1 ELSE 1)
    ELSE IF ExactSample(s) THEN 0
    ELSE FCmp(FD2(cloud[a], s), FD2(cloud[b], s))

(* ids_in[np.argpartition(d2_in, kth = kk - 1)[:kk]], for more than kk     *)
(* rows in `ids`: the partition puts kk rows in front of which none has a  *)
(* greater d2 than a row behind them, and leaves open which rows of equal  *)
(* d2 these are.  Every set of kk rows it may put in front:                *)
Partitions(cloud, s, ids, kk) ==
    { used \in SUBSET ids :
        /\ Cardinality(used) = kk
        /\ \A a \in used, b \in ids \ used : CmpD2(cloud, s, a, b) <= 0 }

(* What decides d2_in and kth, and with them the rows np.argpartition puts *)
(* in front on one build: the planar positions and the keys of the cloud   *)
(* rows, the sample, the radius and k.                                     *)
PartKey(cloud, ks, s, r, kk) ==
    [xy |-> [j \in 1..Len(cloud) |-> <<cloud[j].e, cloud[j].x, cloud[j].y>>],
     keys |-> ks, s |-> s, r |-> r, kk |-> kk]

(* A call free to put other rows in front than an earlier call with the    *)
(* same arrays did: not what a build does.                                 *)
PartitionedAnew(part, key, all) == all

(* np.argpartition on one build: what it returned for these arrays before, *)
(* and any of what it may return for arrays it has not seen.               *)
Partitioned(part, key, all) == IF key \in DOMAIN part THEN {part[key]} ELSE all

(* z_assign.py 128-132: the sets of rows ids_in can be after the cap: all  *)
(* rows within the radius when they are at most k_eff_max, else what the   *)
(* partition puts in front.                                                *)
UsedSets(part, cloud, ks, s, r, kk) ==
    LET ids_in == IdsIn(cloud, ks, s, r)
        k_eff_max == Max2(1, kk)
    IN  IF Cardinality(ids_in) > k_eff_max
        THEN Partitioned(part, PartKey(cloud, ks, s, r, k_eff_max),
                         Partitions(cloud, s, ids_in, k_eff_max))
        ELSE {ids_in}

(* The build after the sample s: it has returned `used` if np.argpartition *)
(* was called.                                                             *)
Remembered(part, cloud, ks, s, r, kk, used) ==
    IF Cardinality(IdsIn(cloud, ks, s, r)) > Max2(1, kk)
    THEN (PartKey(cloud, ks, s, r, Max2(1, kk)) :> used) @@ part
    ELSE part

(* the elevations of rows `ids`, ascending                                 *)
RECURSIVE SortedZ(_, _)
SortedZ(cloud, ids) ==
    IF ids = {} THEN <<>>
    ELSE LET m == CHOOSE a \in ids : \A b \in ids : cloud[a].z <= cloud[b].z
         IN  <<cloud[m].z>> \o SortedZ(cloud, ids \ {m})

(* The quantile counted from the largest value down: not what the code     *)
(* does.                                                                   *)
QuantileFromTop(zs, qn) ==
    LET pos == (QDen - qn) * (Len(zs) - 1)
        lo == pos \div QDen
        fr == pos % QDen
    IN  IF fr = 0 THEN QDen * zs[lo + 1]
        ELSE QDen * zs[lo + 1] + fr * (zs[lo + 2] - zs[lo + 1])

(* np.quantile(z, qn / QDen), linear interpolation, times QDen             *)
Quantile(zs, qn) ==
    LET pos == qn * (Len(zs) - 1)
        lo == pos \div QDen
        fr == pos % QDen
    IN  IF fr = 0 THEN QDen * zs[lo + 1]
        ELSE QDen * zs[lo + 1] + fr * (zs[lo + 2] - zs[lo + 1])

(* How the float of an elevation was computed: as                          *)
(* float(np.quantile(z, quantile)) + float(offset) of the whole elevations *)
(* zs (ascending) at the quantile qn / QDen, or, zs being empty, as        *)
(* float(fallback_z) + float(offset) of the fallback fb / QDen.  A whole   *)
(* elevation k read from a file is its own float.                          *)
ZQuantile(zs, qn, off) == [zs |-> zs, qn |-> qn, fb |-> 0, off |-> off]

ZFallback(fb, off) == [zs |-> <<>>, qn |-> 0, fb |-> fb, off |-> off]

ZWhole(k) == ZFallback(QDen * k, 0)

(* numpy's _lerp(a, b, t): a + (b - a) * t, and b - (b - a) * (1 - t)      *)
(* where t >= 0.5                                                          *)
LerpBy(a, b, diff, t) ==
    IF FCmpRat(t, 1, 2) >= 0
    THEN FSub(b, FMul(diff, FSub(FromInt(1), t)))
    ELSE FAdd(a, FMul(diff, t))

Lerp(a, b, t) == LerpBy(a, b, FSub(b, a), t)

(* np.quantile(z, q), method "linear", in float64 as numpy computes it:    *)
(* the virtual index v = (n - 1) * q; at or beyond n - 1 the last value;   *)
(* else the values at floor(v) and floor(v) + 1 (counted from 0),          *)
(* interpolated at gamma = v - floor(v).                                   *)
QuantileAt(zs, v, lo) ==
    Lerp(FromInt(zs[lo + 1]), FromInt(zs[lo + 2]), FSub(v, FromInt(lo)))

QuantileVirtual(zs, v) ==
    IF FCmp(v, FromInt(Len(zs) - 1)) >= 0 THEN FromInt(zs[Len(zs)])
    ELSE QuantileAt(zs, v, FFloor(v))

QuantileFloat(zs, qn) ==
    QuantileVirtual(zs, FMul(FromInt(Len(zs) - 1), FDiv(FromInt(qn), FromInt(QDen))))

(* The float of an elevation computed as fz says                           *)
ZFloat(fz) ==
    FAdd(IF fz.zs = <<>> THEN FDiv(FromInt(fz.fb), FromInt(QDen))
         ELSE QuantileFloat(fz.zs, fz.qn),
         FromInt(fz.off))

(* out[i] for sample s, with how it was obtained: `used` is ids_in after   *)
(* the cap (z_assign.py 130-132); z is the exact value in 1 / QDen, fz how *)
(* its float was computed                                                  *)
SampleZ(cloud, ks, s, r, qn, fb, off, used) ==
    IF IdsIn(cloud, ks, s, r) = {}
    THEN [z |-> fb + off * QDen, fz |-> ZFallback(fb, off), via |-> "fallback",
          ids_in |-> {}, used |-> {}]
    ELSE [z |-> Quantile(SortedZ(cloud, used), qn) + off * QDen,
          fz |-> ZQuantile(SortedZ(cloud, used), qn, off),
          via |-> "quantile", ids_in |-> IdsIn(cloud, ks, s, r), used |-> used]

(* p = int(100 * (i + 1) / max(1, n))                                      *)
Percent(i, n) == (100 * i) \div Max2(1, n)

(* Before a call of surface_z_from_neighbors, on the build b               *)
ZIdleOn(b) ==
    /\ cloud_xyz = <<>> /\ samples_xy = <<>>
    /\ radius_m = 1 /\ z_k = 1 /\ quantile = 0 /\ fallback_z = 0 /\ offset = 0
    /\ z_progress = FALSE
    /\ build = b
    /\ keys = <<>> /\ zpc = "idle" /\ z_i = 0 /\ last_p = 0 - 1
    /\ z_prog = <<>> /\ z_out = <<>>

(* Where neither the reader nor the neighbour query is called, one build   *)
ZIdle == ZIdleOn([cast |-> "indefinite", rng |-> NoDraws, part |-> NoPartitions])

(* The call without the check of k: not what the code does.                *)
ZEnterAnyK ==
    /\ zpc = "call"
    /\ IF radius_m <= 0 \/ quantile < 0 \/ quantile > QDen \/ Len(cloud_xyz) = 0
       THEN zpc' = "ValueError" /\ UNCHANGED <<keys, z_i>>
       ELSE /\ zpc' = "loop"
            /\ keys' = CloudKeys(cloud_xyz, radius_m, build.cast)
            /\ z_i' = 1
    /\ UNCHANGED <<zArgs, last_p, z_prog, z_out>>

(* The call: the argument checks of surface_z_from_neighbors, the empty    *)
(* cloud check and the construction of the grid keys.                      *)
ZEnter ==
    /\ zpc = "call"
    /\ IF radius_m <= 0 \/ z_k <= 0 \/ quantile < 0 \/ quantile > QDen
          \/ Len(cloud_xyz) = 0
       THEN zpc' = "ValueError" /\ UNCHANGED <<keys, z_i>>
       ELSE /\ zpc' = "loop"
            /\ keys' = CloudKeys(cloud_xyz, radius_m, build.cast)
            /\ z_i' = 1
    /\ UNCHANGED <<zArgs, last_p, z_prog, z_out>>

(* One iteration of the per-sample loop: out[i], then the percent, passed  *)
(* to `progress` when one was given and the percent is a new one.          *)
ZSample ==
    /\ zpc = "loop"
    /\ z_i <= Len(samples_xy)
    /\ \E used \in UsedSets(build.part, cloud_xyz, keys, samples_xy[z_i], radius_m, z_k) :
           /\ z_out' = Append(z_out, SampleZ(cloud_xyz, keys, samples_xy[z_i], radius_m,
                                             quantile, fallback_z, offset, used))
           /\ build' = [build EXCEPT !.part = Remembered(@, cloud_xyz, keys, samples_xy[z_i],
                                                         radius_m, z_k, used)]
    /\ LET p == Percent(z_i, Len(samples_xy))
       IN  IF z_progress /\ p # last_p
           THEN last_p' = p /\ z_prog' = Append(z_prog, p)
           ELSE UNCHANGED <<last_p, z_prog>>
    /\ z_i' = z_i + 1
    /\ UNCHANGED <<cloud_xyz, samples_xy, radius_m, z_k, quantile, fallback_z, offset,
                   z_progress, keys, zpc>>

ZReturn ==
    /\ zpc = "loop"
    /\ z_i > Len(samples_xy)
    /\ zpc' = "done"
    /\ UNCHANGED <<zArgs, keys, z_i, last_p, z_prog, z_out>>

----------------------------------------------------------------------------
(* read_las_points_in_bbox                                                 *)
(*                                                                         *)
(* ChunkSize stands for the 2_000_000 points of one chunk of               *)
(* lf.chunk_iterator, scaled down.  A bbox bound is a rational [n, d].     *)

Rat(n, d) == [n |-> n, d |-> d]

NoCap == [some |-> FALSE, n |-> 0]

Cap(n) == [some |-> TRUE, n |-> n]

(* A LAS file: its points as laspy reads them (X * scale + offset), whether *)
(* its point format has colours, and the scales and offsets of its header, *)
(* here the same on the three axes.                                        *)
LasFile(pts, rgb, scale) ==
    [pts |-> pts, has_rgb |-> rgb, scales |-> <<scale, scale, scale>>,
     offsets |-> <<0, 0, 0>>]

(* A scale of 1 m and a scale of 1/4 m.                                    *)
Metre == Rat(1, 1)

QuarterMetre == Rat(1, 4)

NChunks(file) == (Len(file.pts) + ChunkSize - 1) \div ChunkSize

(* the points of chunk c of the file                                       *)
Chunk(file, c) ==
    SubSeq(file.pts, (c - 1) * ChunkSize + 1, Min2(c * ChunkSize, Len(file.pts)))

(* (x >= minx) & (x <= maxx) & (y >= miny) & (y <= maxy); the bbox lies    *)
(* near the origin (e = 0)                                                 *)
InBBox(p, bbox) ==
    /\ p.e = 0
    /\ p.x * bbox.minx.d >= bbox.minx.n
    /\ p.x * bbox.maxx.d <= bbox.maxx.n
    /\ p.y * bbox.miny.d >= bbox.miny.n
    /\ p.y * bbox.maxy.d <= bbox.maxy.n

(* points.x[mask], points.y[mask], points.z[mask]                          *)
Masked(pts, bbox) ==
    LET keep == SelectSeq(pts, LAMBDA p : InBBox(p, bbox))
    IN  [j \in 1..Len(keep) |-> [e |-> keep[j].e, x |-> keep[j].x,
                                  y |-> keep[j].y, z |-> keep[j].z]]

RECURSIVE SeqMin(_, _, _)
SeqMin(pts, f, j) ==
    IF j = Len(pts) THEN pts[j][f] ELSE Min2(pts[j][f], SeqMin(pts, f, j + 1))

RECURSIVE SeqMax(_, _, _)
SeqMax(pts, f, j) ==
    IF j = Len(pts) THEN pts[j][f] ELSE Max2(pts[j][f], SeqMax(pts, f, j + 1))

(* (hdr.mins[0], hdr.mins[1], hdr.maxs[0], hdr.maxs[1]): the extent the    *)
(* header of the file declares                                             *)
LasBBox(file) ==
    IF Len(file.pts) = 0 THEN <<0, 0, 0, 0>>
    ELSE <<SeqMin(file.pts, "x", 1), SeqMin(file.pts, "y", 1),
           SeqMax(file.pts, "x", 1), SeqMax(file.pts, "y", 1)>>

(* The generator of a call started after `earlier` calls, carried over     *)
(* from them: not what the code does.                                      *)
RngCarried(earlier) == earlier

(* np.random.default_rng(0): every call builds its generator from seed 0   *)
RngOfCall(earlier) == 0

(* The arrays rng.choice(n, size = m, replace = False) can return: m       *)
(* distinct indices of 1..n, in any order                                  *)
Draws(n, m) ==
    { idx \in [1..m -> 1..n] : \A i, j \in 1..m : i # j => idx[i] # idx[j] }

(* The state g of the generator and the arguments of the draw              *)
DrawKey(g, n, m) == [g |-> g, n |-> n, m |-> m]

(* rng.choice(n, size = m, replace = False) of a generator in the state g  *)
(* on one build: what it returned for that state and these arguments       *)
(* before, or, the first time, any array it can return                     *)
Choice(rng, n, m, g) ==
    IF DrawKey(g, n, m) \in DOMAIN rng THEN {rng[DrawKey(g, n, m)]} ELSE Draws(n, m)

(* The build after the draw: it has returned idx                           *)
Drew(rng, n, m, g, idx) == (DrawKey(g, n, m) :> idx) @@ rng

(* The array returned as read, the draw skipped: not what the code does.   *)
SubsampleSkipped(pts, idx) == pts

(* pts[idx]                                                                *)
Subsample(pts, idx) == [j \in 1..Len(idx) |-> pts[idx[j]]]

ZeroBBox == [minx |-> Rat(0, 1), miny |-> Rat(0, 1), maxx |-> Rat(0, 1), maxy |-> Rat(0, 1)]

(* The error raised, if any: "unaligned" is the ValueError whose message   *)
(* holds boundary_bbox and las_bbox, "numpy" the ValueError of rng.choice. *)
NoError == [kind |-> "none", boundary_bbox |-> ZeroBBox, las_bbox |-> <<0, 0, 0, 0>>]

RdIdle ==
    /\ las_file = LasFile(<<>>, FALSE, Metre)
    /\ rd_bbox = ZeroBBox
    /\ max_points = NoCap
    /\ rd_pc = "idle" /\ rd_c = 0 /\ rd_xs = <<>> /\ rd_ret = <<>>
    /\ rd_err = NoError
    /\ rd_calls = 0
    /\ rd_prev = <<>>

(* The call: laspy.open and the empty lists.                               *)
RdEnter ==
    /\ rd_pc = "call"
    /\ rd_pc' = "loop"
    /\ rd_c' = 1
    /\ rd_xs' = <<>>
    /\ rd_ret' = <<>>
    /\ rd_err' = NoError
    /\ rd_calls' = rd_calls + 1
    /\ UNCHANGED <<rdArgs, rd_prev>>

(* One iteration of the chunk loop.                                        *)
RdChunk ==
    /\ rd_pc = "loop"
    /\ rd_c <= NChunks(las_file)
    /\ LET kept == Masked(Chunk(las_file, rd_c), rd_bbox)
           cur == Len(rd_xs) + Len(kept)
       IN  IF kept = <<>>
           THEN rd_c' = rd_c + 1 /\ UNCHANGED <<rd_xs, rd_pc>>
           ELSE /\ rd_xs' = rd_xs \o kept
                /\ IF max_points.some /\ cur >= max_points.n
                   THEN rd_pc' = "after" /\ UNCHANGED rd_c
                   ELSE rd_c' = rd_c + 1 /\ UNCHANGED rd_pc
    /\ UNCHANGED <<rdArgs, rd_ret, rd_err, rd_calls, rd_prev>>

(* The iterator is exhausted.                                              *)
RdExhausted ==
    /\ rd_pc = "loop"
    /\ rd_c > NChunks(las_file)
    /\ rd_pc' = "after"
    /\ UNCHANGED <<rdArgs, rd_c, rd_xs, rd_ret, rd_err, rd_calls, rd_prev>>

(* After the loop, an empty selection returned as an empty array: not what *)
(* the code does.                                                          *)
RdFinishSilent ==
    /\ rd_pc = "after"
    /\ rd_pc' = "done"
    /\ IF max_points.some /\ Len(rd_xs) > max_points.n /\ max_points.n >= 0
       THEN \E idx \in Choice(build.rng, Len(rd_xs), max_points.n, RngOfCall(rd_calls - 1)) :
                /\ rd_ret' = Subsample(rd_xs, idx)
                /\ build' = [build EXCEPT !.rng = Drew(@, Len(rd_xs), max_points.n,
                                                       RngOfCall(rd_calls - 1), idx)]
       ELSE rd_ret' = rd_xs /\ UNCHANGED build
    /\ UNCHANGED <<rdArgs, rd_c, rd_xs, rd_err, rd_calls, rd_prev>>

(* After the loop: the error of an empty selection, or the array, cut to   *)
(* max_points rows by the seeded draw (a negative size makes the draw      *)
(* itself raise): the rows drawn, in the order drawn.                      *)
RdFinish ==
    /\ rd_pc = "after"
    /\ IF rd_xs = <<>>
       THEN /\ rd_pc' = "ValueError"
            /\ rd_err' = [kind |-> "unaligned", boundary_bbox |-> rd_bbox,
                          las_bbox |-> LasBBox(las_file)]
            /\ UNCHANGED <<rd_ret, build>>
       ELSE IF max_points.some /\ Len(rd_xs) > max_points.n
            THEN IF max_points.n < 0
                 THEN /\ rd_pc' = "ValueError"
                      /\ rd_err' = [NoError EXCEPT !.kind = "numpy"]
                      /\ UNCHANGED <<rd_ret, build>>
                 ELSE \E idx \in Choice(build.rng, Len(rd_xs), max_points.n,
                                        RngOfCall(rd_calls - 1)) :
                          /\ rd_pc' = "done"
                          /\ rd_ret' = Subsample(rd_xs, idx)
                          /\ build' = [build EXCEPT !.rng = Drew(@, Len(rd_xs), max_points.n,
                                                                 RngOfCall(rd_calls - 1), idx)]
                          /\ UNCHANGED rd_err
            ELSE rd_pc' = "done" /\ rd_ret' = rd_xs /\ UNCHANGED <<rd_err, build>>
    /\ UNCHANGED <<rdArgs, rd_c, rd_xs, rd_calls, rd_prev>>

(* The caller calls again with the same arguments.                         *)
RdAgain ==
    /\ rd_pc \in {"done", "ValueError"}
    /\ rd_calls < MaxCalls
    /\ rd_prev' = <<[pc |-> rd_pc, ret |-> rd_ret, err |-> rd_err]>>
    /\ rd_pc' = "call"
    /\ UNCHANGED <<rdArgs, rd_c, rd_xs, rd_ret, rd_err, rd_calls>>

----------------------------------------------------------------------------
(* run and _write_combined_las_with_cad_points                             *)
(*                                                                         *)
(* In a run, lengths are in metres: the coordinates of the drawing and of  *)
(* the cloud, the step and the radius are whole numbers of metres.         *)
(* Elevations computed (fallback_z, the assigned Z) are in units of        *)
(* 1 / QDen m.  The "%.3f" of the XYZ writers gives a whole number of      *)
(* thousandths.  A colour is a triple <<r, g, b>>.                         *)

(* f"{v:.3f}" for the float v of n / d metres, computed as f says: the     *)
(* sign printed and the digits as a whole number of thousandths, the       *)
(* thousandth nearest to the float.  Halfway between two thousandths the   *)
(* float decides: the even thousandth where it is n / d exactly, else the  *)
(* one on the side where the float lies.  The sign printed is the sign bit *)
(* of the float, also when "-0.000" is printed: for a float below 0 that   *)
(* rounds to no thousandth, and for -0.0.  Fmt3Of takes the float v        *)
(* itself.                                                                 *)
Fmt3Of(n, d, v) ==
    LET q == (1000 * Abs(n)) \div d
        r == (1000 * Abs(n)) % d
    IN  [neg |-> IF n # 0 THEN n < 0 ELSE v.s < 0,
         th |-> IF 2 * r < d THEN q
                ELSE IF 2 * r > d THEN q + 1
                ELSE Nearest(q, FCmpRat([v EXCEPT !.s = 1], 2 * q + 1, 2000))]

Fmt3(n, d, f) == Fmt3Of(n, d, Float(f))

(* str.lower, for the letters A .. Z.                                      *)
RECURSIVE Lower(_)
Lower(s) ==
    LET upper == "ABCDEFGHIJKLMNOPQRSTUVWXYZ"
        lower == "abcdefghijklmnopqrstuvwxyz"
        c == SubSeq(s, 1, 1)
        at == { i \in 1..26 : SubSeq(upper, i, i) = c }
    IN  IF Len(s) = 0 THEN ""
        ELSE (IF at = {} THEN c ELSE LET i == CHOOSE i \in at : TRUE
                                     IN  SubSeq(lower, i, i))
             \o Lower(SubSeq(s, 2, Len(s)))

(* str.startswith                                                          *)
StartsWith(s, prefix) == Len(s) >= Len(prefix) /\ SubSeq(s, 1, Len(prefix)) = prefix

(* str.endswith                                                            *)
EndsWith(s, suffix) ==
    Len(s) >= Len(suffix) /\ SubSeq(s, Len(s) - Len(suffix) + 1, Len(s)) = suffix

(* layer_ok of extract_dxf_polylines                                       *)
layer_ok(e, layer) == layer = "" \/ e.layer = layer

(* What the extractors keep of an entity: a LWPOLYLINE of at least 2       *)
(* points, a POLYLINE that is a 2D or a 3D polyline (not a polygon mesh or *)
(* a polyface mesh) of at least 2 vertices, or a LINE.                     *)
IsLinework(e) ==
    \/ e.t = "LWPOLYLINE" /\ Len(e.verts) >= 2
    \/ e.t = "POLYLINE" /\ (e.is_2d_polyline \/ e.is_3d_polyline) /\ Len(e.verts) >= 2
    \/ e.t = "LINE"

(* extract_dxf_polylines(dxf_path, layer)                                  *)
extract_dxf_polylines(doc, layer) ==
    LET kept == SelectSeq(doc, LAMBDA e : layer_ok(e, layer) /\ IsLinework(e))
    IN  IF kept = <<>> THEN [status |-> "ValueError", out |-> <<>>]
        ELSE [status |-> "ok", out |-> [j \in 1..Len(kept) |-> kept[j].verts]]

(* extract_dxf_polylines_with_layer(dxf_path, layers): `layers` is         *)
(* [some, names], some = FALSE standing for None.                          *)
extract_dxf_polylines_with_layer(doc, layers) ==
    LET allow == IF layers.some THEN layers.names \ {""} ELSE {}
        kept == SelectSeq(doc, LAMBDA e :
                    (allow = {} \/ e.layer \in allow) /\ IsLinework(e))
    IN  IF kept = <<>> THEN [status |-> "ValueError", out |-> <<>>]
        ELSE [status |-> "ok",
              out |-> [j \in 1..Len(kept) |-> <<kept[j].layer, kept[j].verts>>]]

(* The polylines taken last to first: not what the code does.              *)
RECURSIVE DensifyAllBackwards(_, _, _)
DensifyAllBackwards(pls, p, step) ==
    IF p > Len(pls) THEN <<>>
    ELSE LET q == Len(pls) - p + 1
             r == densify_polyline(pls[q], step, EpsMetre).pts
         IN  [j \in 1..Len(r) |->
                 [x |-> r[j].x, y |-> r[j].y, d |-> r[j].d,
                  fx |-> r[j].fx, fy |-> r[j].fy, hasz |-> r[j].hasz,
                  z |-> r[j].z, poly_id |-> q - 1]]
             \o DensifyAllBackwards(pls, p + 1, step)

(* The loop over enumerate(polylines), from polyline number p on: one      *)
(* SamplePoint per point densify_polyline returns, poly_id counted from 0. *)
RECURSIVE DensifyAll(_, _, _)
DensifyAll(pls, p, step) ==
    IF p > Len(pls) THEN <<>>
    ELSE LET r == densify_polyline(pls[p], step, EpsMetre).pts
         IN  [j \in 1..Len(r) |->
                 [x |-> r[j].x, y |-> r[j].y, d |-> r[j].d,
                  fx |-> r[j].fx, fy |-> r[j].fy, hasz |-> r[j].hasz,
                  z |-> r[j].z, poly_id |-> p - 1]]
             \o DensifyAll(pls, p + 1, step)

(* The polylines the loop of pipeline.py 199 gets through: all of them, or *)
(* those before the first on which densify_polyline raises.                *)
Densified(pls, step) ==
    LET bad == { p \in 1..Len(pls) :
                   densify_polyline(pls[p], step, EpsMetre).status = "ValueError" }
    IN  IF bad = {} THEN pls
        ELSE SubSeq(pls, 1, (CHOOSE p \in bad : \A q \in bad : p <= q) - 1)

(* poly_layers[poly_id] if poly_id < len(poly_layers) else ""              *)
LayerTag(poly_id, layers) ==
    IF poly_id < Len(layers) THEN layers[poly_id + 1] ELSE ""

RatLess(a, b) == a.n * b.d < b.n * a.d

RECURSIVE RatMin(_, _, _)
RatMin(xy, f, j) ==
    LET v == Rat(xy[j][f], xy[j].d)
    IN  IF j = Len(xy) THEN v
        ELSE LET w == RatMin(xy, f, j + 1) IN IF RatLess(w, v) THEN w ELSE v

RECURSIVE RatMax(_, _, _)
RatMax(xy, f, j) ==
    LET v == Rat(xy[j][f], xy[j].d)
    IN  IF j = Len(xy) THEN v
        ELSE LET w == RatMax(xy, f, j + 1) IN IF RatLess(v, w) THEN w ELSE v

(* compute_bbox(xy_points), of at least one point                          *)
compute_bbox(xy) ==
    [minx |-> RatMin(xy, "x", 1), miny |-> RatMin(xy, "y", 1),
     maxx |-> RatMax(xy, "x", 1), maxy |-> RatMax(xy, "y", 1)]

(* the elevations of all rows of an array, ascending                       *)
ZsSorted(cloud) == SortedZ(cloud, 1..Len(cloud))

(* pick_constant_z(zs, mode, offset) in units of 1 / QDen; zs not empty    *)
pick_constant_z(cloud, mode, off) ==
    LET mode_l == Lower(mode)
    IN  CASE mode_l = "p95" ->
                 [status |-> "ok", z |-> Quantile(ZsSorted(cloud), 19) + off * QDen]
          [] mode_l = "median" ->
                 [status |-> "ok", z |-> Quantile(ZsSorted(cloud), 10) + off * QDen]
          [] OTHER -> [status |-> "ValueError", z |-> 0]

NoFile == [exists |-> FALSE, layout |-> "", rows |-> <<>>]

(* No file at out_xyz or at out_las, neither directory made.               *)
NoFiles == [xyz |-> NoFile, las |-> NoFile, dirs |-> {}]

MrgIdle == [cad_xyz |-> <<>>, cad_rgbs |-> <<>>, c |-> 0, chunks_xyz |-> <<>>,
            chunks_rgb |-> <<>>, read_count |-> 0]

NoLayers == [some |-> FALSE, names |-> {}]

NoColors == [some |-> FALSE, map |-> [ln \in {} |-> <<0, 0, 0>>]]

ArgsIdle ==
    [step_m |-> 1, layer |-> "", cloud_ext |-> ".las", z_mode |-> "", z_offset |-> 0,
     z_radius_m |-> 1, z_k |-> 1, z_quantile |-> 0, las_max_points |-> NoCap,
     write_poly_id |-> FALSE, out_rgb |-> FALSE, rgb |-> <<0, 0, 0>>,
     layers_selected |-> NoLayers, layer_colors |-> NoColors,
     all_layers_one_color |-> FALSE, write_combined_las |-> FALSE,
     out_las |-> FALSE, write_sf |-> FALSE, sf_mode |-> "const", sf_value |-> 1,
     out_xyz |-> FALSE, progress |-> FALSE,
     assume_same_crs |-> TRUE, cad_crs_str |-> "", cloud_crs_str |-> ""]

(* No command line.                                                        *)
CliIdle == [pc |-> "idle"]

(* The front-end after MainWindow.__init__: no thread, no worker, the run  *)
(* button enabled.  `thread` and `worker` tell that self._thread and       *)
(* self._worker are not None; `active` counts the calls of run_job that    *)
(* have not returned, `waiting` tells that the main thread is in           *)
(* _cleanup_thread, in self._thread.wait; `final` is the done or error     *)
(* signal queued for the main thread, `seen` the number of progress events *)
(* of the job the main thread has handled, `signals` the done and error    *)
(* signals emitted, `handled` those handled.  `job` tells of the last call *)
(* of run_job: "none", "running" (it has not returned) or "returned".      *)
GuiIdle ==
    [thread |-> FALSE, worker |-> FALSE, run_btn |-> TRUE, job |-> "none",
     final |-> "", seen |-> 0, bar |-> 0, jobs |-> 0, active |-> 0,
     waiting |-> FALSE, param_errors |-> 0, signals |-> <<>>, handled |-> <<>>]

(* No writer called on its own.                                            *)
WrIdle == [pc |-> "idle", fn |-> "", pts |-> <<>>, other |-> <<>>, dirs0 |-> {}]

RunIdle ==
    /\ dxf = <<>> /\ run_args = ArgsIdle /\ run_pc = "idle" /\ run_err = ""
    /\ progress_log = <<>>
    /\ polylines = <<>> /\ poly_layers = <<>> /\ samples = <<>>
    /\ sample_layers = <<>> /\ xy_all = <<>> /\ cad_pts = <<>>
    /\ fs = NoFiles /\ mrg = MrgIdle /\ cancel_at = "" /\ run_prev = <<>>
    /\ cli = CliIdle /\ gui = GuiIdle /\ wr = WrIdle

(* progress(p, ...) for each p of ps, if a callback was given              *)
Prog(ps) == IF run_args.progress THEN progress_log \o ps ELSE progress_log

(* pipeline.py 182-198: the first two milestones and the extraction; then  *)
(* the milestone 8 and the two empty lists, samples and sample_layers.     *)
RunExtract ==
    /\ run_pc = "start"
    /\ IF run_args.layer_colors.some \/ run_args.layers_selected.some
       THEN LET r == extract_dxf_polylines_with_layer(dxf, run_args.layers_selected)
            IN  IF r.status = "ValueError"
                THEN /\ run_pc' = "Failed" /\ run_err' = "ValueError: no linework"
                     /\ progress_log' = Prog(<<0, 2>>)
                     /\ UNCHANGED <<polylines, poly_layers>>
                ELSE /\ polylines' = [j \in 1..Len(r.out) |-> r.out[j][2]]
                     /\ poly_layers' = [j \in 1..Len(r.out) |-> r.out[j][1]]
                     /\ progress_log' = Prog(<<0, 2, 8>>)
                     /\ run_pc' = "densify" /\ UNCHANGED run_err
       ELSE LET r == extract_dxf_polylines(dxf, run_args.layer)
            IN  IF r.status = "ValueError"
                THEN /\ run_pc' = "Failed" /\ run_err' = "ValueError: no linework"
                     /\ progress_log' = Prog(<<0, 2>>)
                     /\ UNCHANGED <<polylines, poly_layers>>
                ELSE /\ polylines' = r.out
                     /\ poly_layers' = [j \in 1..Len(r.out) |-> ""]
                     /\ progress_log' = Prog(<<0, 2, 8>>)
                     /\ run_pc' = "densify" /\ UNCHANGED run_err
    /\ UNCHANGED <<cancel_at, run_prev, cli, gui, wr, dxf, run_args, samples, sample_layers, xy_all, cad_pts, fs, mrg>>
    /\ UNCHANGED <<densVars, zVars, rdVars>>

(* mode = z_mode.lower(); mode.startswith("surface") or mode in ("p95",)   *)
ModeSupported(z_mode) ==
    LET mode == Lower(z_mode)
    IN  StartsWith(mode, "surface") \/ mode \in {"p95"}

(* cloud_path.lower().endswith((".las", ".laz")), for a path that ends in  *)
(* ext                                                                     *)
CloudPathSupported(ext) ==
    EndsWith(Lower(ext), ".las") \/ EndsWith(Lower(ext), ".laz")

(* The next sample appended whether the one before it has its layer tag or *)
(* not: not what the code does.                                            *)
RunAppendSampleUntagged ==
    /\ run_pc = "densify"
    /\ LET step == run_args.step_m
           smp == DensifyAll(Densified(polylines, step), 1, step)
       IN  /\ Len(samples) < Len(smp)
           /\ samples' = Append(samples, smp[Len(samples) + 1])
    /\ UNCHANGED <<run_pc, run_err, sample_layers>>
    /\ UNCHANGED <<cancel_at, run_prev, cli, gui, wr, dxf, run_args, progress_log,
                   polylines, poly_layers, xy_all, cad_pts, fs, mrg>>
    /\ UNCHANGED <<densVars, zVars, rdVars>>

(* pipeline.py 199-201: the two for statements give the next point, the    *)
(* call of densify_polyline at the start of a polyline included, and its   *)
(* SamplePoint is appended to samples; or the call raises.  Where the two  *)
(* loops are is the number of samples appended: the sample before has its  *)
(* layer tag.                                                              *)
RunAppendSample ==
    /\ run_pc = "densify"
    /\ Len(sample_layers) = Len(samples)
    /\ LET step == run_args.step_m
           smp == DensifyAll(Densified(polylines, step), 1, step)
       IN  IF Len(samples) < Len(smp)
           THEN /\ samples' = Append(samples, smp[Len(samples) + 1])
                /\ UNCHANGED <<run_pc, run_err>>
           ELSE /\ Densified(polylines, step) # polylines
                /\ run_pc' = "Failed" /\ run_err' = "ValueError: step_m"
                /\ UNCHANGED samples
    /\ UNCHANGED <<cancel_at, run_prev, cli, gui, wr, dxf, run_args, progress_log,
                   polylines, poly_layers, sample_layers, xy_all, cad_pts, fs, mrg>>
    /\ UNCHANGED <<densVars, zVars, rdVars>>

(* pipeline.py 202: the layer tag of the sample just appended is appended  *)
(* to sample_layers.                                                       *)
RunAppendLayer ==
    /\ run_pc = "densify"
    /\ Len(sample_layers) < Len(samples)
    /\ sample_layers' =
           Append(sample_layers, LayerTag(samples[Len(samples)].poly_id, poly_layers))
    /\ UNCHANGED <<cancel_at, run_prev, cli, gui, wr, dxf, run_args, run_pc, run_err,
                   progress_log, polylines, poly_layers, samples, xy_all, cad_pts, fs, mrg>>
    /\ UNCHANGED <<densVars, zVars, rdVars>>

(* pyproj, which the repository calls and does not hold.  Of its CRSs two  *)
(* are drawn: one projected CRS in metres, and the same projection in      *)
(* units of half a metre; any other string that is not empty stands for    *)
(* one pyproj cannot read.  `per_m` is the number of units in a metre.     *)
CrsMetres == "+proj=utm +zone=33 +datum=WGS84 +units=m +type=crs"

CrsHalfMetres == "+proj=utm +zone=33 +datum=WGS84 +to_meter=0.5 +type=crs"

NoCrs == [some |-> FALSE, name |-> "", per_m |-> 1]

(* parse_crs(crs_str): None for None and for "", else                      *)
(* CRS.from_user_input(crs_str), which raises CRSError                     *)
parse_crs(crs_str) ==
    IF crs_str = "" THEN [status |-> "ok", crs |-> NoCrs]
    ELSE IF crs_str = CrsMetres
    THEN [status |-> "ok", crs |-> [some |-> TRUE, name |-> crs_str, per_m |-> 1]]
    ELSE IF crs_str = CrsHalfMetres
    THEN [status |-> "ok", crs |-> [some |-> TRUE, name |-> crs_str, per_m |-> 2]]
    ELSE [status |-> "CRSError", crs |-> NoCrs]

(* make_transformer(src, dst): None when one of the two is None or the two *)
(* are equal, else Transformer.from_crs(src, dst, always_xy=True).  The    *)
(* transformer between the two CRSs here converts the unit: it multiplies  *)
(* by `mul`, a whole number from metres to half-metres, the only direction *)
(* drawn.                                                                  *)
make_transformer(src, dst) ==
    IF ~src.some \/ ~dst.some \/ src = dst THEN [some |-> FALSE, mul |-> 1]
    ELSE [some |-> TRUE, mul |-> dst.per_m \div src.per_m]

(* The float of k * v for the float v computed as f says, k a power of 2:  *)
(* the product is exact, and is the float computed in the same way from    *)
(* k * a and k * b.                                                        *)
Times(f, k) == [a |-> k * f.a, b |-> k * f.b, j |-> f.j, n |-> f.n]

(* tr.transform(xs, ys), then float() of each: one pair, in lowest terms   *)
Transformed(tr, q) ==
    LET g == GCD(GCD(Abs(tr.mul * q.x), Abs(tr.mul * q.y)), q.d)
    IN  [e |-> q.e, x |-> (tr.mul * q.x) \div g, y |-> (tr.mul * q.y) \div g,
         d |-> q.d \div g, fx |-> Times(q.fx, tr.mul), fy |-> Times(q.fy, tr.mul)]

(* pipeline.py 204 and 209-213: (s.x, s.y) of a sample, through the        *)
(* transformer if there is one                                             *)
SampleXY(smp, tr) ==
    LET q == [e |-> 0, x |-> smp.x, y |-> smp.y, d |-> smp.d, fx |-> smp.fx, fy |-> smp.fy]
    IN  IF tr.some THEN Transformed(tr, q) ELSE q

(* The transformer of pipeline.py 206-209 under the arguments a: none with *)
(* assume_same_crs                                                         *)
RunTransformer(a) ==
    IF a.assume_same_crs THEN [some |-> FALSE, mul |-> 1]
    ELSE make_transformer(parse_crs(a.cad_crs_str).crs, parse_crs(a.cloud_crs_str).crs)

(* pipeline.py 204-225, the loops over: xy_all, the reprojection when      *)
(* assume_same_crs is off, the bbox, the checks of the cloud path and of   *)
(* the Z mode, and the call of read_las_points_in_bbox.                    *)
RunBBox ==
    /\ run_pc = "densify"
    /\ Len(sample_layers) = Len(samples)
    /\ Densified(polylines, run_args.step_m) = polylines
    /\ Len(samples) = Len(DensifyAll(polylines, 1, run_args.step_m))
    /\ IF /\ ~run_args.assume_same_crs
          /\ "CRSError" \in {parse_crs(run_args.cad_crs_str).status,
                              parse_crs(run_args.cloud_crs_str).status}
       THEN /\ xy_all' = [j \in 1..Len(samples) |->
                              SampleXY(samples[j], [some |-> FALSE, mul |-> 1])]
            /\ run_pc' = "Failed" /\ run_err' = "CRSError"
            /\ UNCHANGED <<progress_log, rdVars>>
       ELSE /\ xy_all' = [j \in 1..Len(samples) |->
                              SampleXY(samples[j], RunTransformer(run_args))]
            /\ IF ~CloudPathSupported(run_args.cloud_ext)
               THEN /\ run_pc' = "Failed" /\ run_err' = "ValueError: only LAS/LAZ"
                    /\ UNCHANGED <<progress_log, rdVars>>
               ELSE IF ~ModeSupported(run_args.z_mode)
               THEN /\ run_pc' = "Failed" /\ run_err' = "ValueError: unsupported z_mode"
                    /\ UNCHANGED <<progress_log, rdVars>>
               ELSE /\ run_pc' = "reading" /\ UNCHANGED run_err
                    /\ progress_log' = Prog(<<15>>)
                    /\ rd_bbox' = compute_bbox(xy_all')
                    /\ max_points' = run_args.las_max_points
                    /\ rd_pc' = "call"
                    /\ UNCHANGED <<las_file, rd_c, rd_xs, rd_ret, rd_err, rd_calls, rd_prev>>
    /\ UNCHANGED <<cancel_at, run_prev, cli, gui, wr, dxf, run_args, polylines, poly_layers,
                   samples, sample_layers, cad_pts, fs, mrg>>
    /\ UNCHANGED <<densVars, zVars>>

(* pipeline.py 225-252: the array read, fallback_z, the offset, and the    *)
(* call of surface_z_from_neighbors.  Of an empty array np.median is nan,  *)
(* which nothing reads: the call raises on the empty cloud.                *)
RunCloudLoaded ==
    /\ run_pc = "reading"
    /\ rd_pc \in {"done", "ValueError"}
    /\ IF rd_pc = "ValueError"
       THEN /\ run_pc' = "Failed" /\ run_err' = "ValueError: " \o rd_err.kind
            /\ UNCHANGED <<progress_log, zVars>>
       ELSE /\ run_pc' = "zassign" /\ UNCHANGED run_err
            /\ progress_log' = Prog(<<40>>)
            /\ cloud_xyz' = rd_ret
            /\ samples_xy' = xy_all
            /\ radius_m' = run_args.z_radius_m
            /\ z_k' = run_args.z_k
            /\ quantile' = run_args.z_quantile
            /\ fallback_z' = IF rd_ret = <<>> THEN 0
                             ELSE pick_constant_z(rd_ret, "median", 0).z
            /\ offset' = IF Lower(run_args.z_mode) \in {"surface_offset", "p95"}
                         THEN run_args.z_offset ELSE 0
            /\ z_progress' = run_args.progress
            /\ zpc' = "call"
            /\ UNCHANGED <<build, keys, z_i, last_p, z_prog, z_out>>
    /\ UNCHANGED <<cancel_at, run_prev, cli, gui, wr, dxf, run_args, runLocals, fs, mrg>>
    /\ UNCHANGED <<densVars, rdVars>>

(* The percent of the loop passed on as it is, not scaled into 40..47: not *)
(* what the code does.                                                     *)
RunZProgressUnscaled ==
    /\ LET p == Percent(z_i, Len(samples_xy))
       IN  progress_log' = IF z_progress /\ p # last_p THEN Prog(<<p>>) ELSE progress_log
    /\ UNCHANGED <<cancel_at, run_prev, cli, gui, wr, dxf, run_args, run_pc, run_err, runLocals, fs, mrg>>

(* _z_prog: progress(40 + int(7 * pp / 100)) for each percent the loop of  *)
(* surface_z_from_neighbors reports; the loop is given _z_prog only when   *)
(* run was given a callback.                                               *)
RunZProgress ==
    /\ LET p == Percent(z_i, Len(samples_xy))
           pp == Max2(0, Min2(100, p))
       IN  progress_log' = IF z_progress /\ p # last_p
                           THEN Prog(<<40 + (7 * pp) \div 100>>)
                           ELSE progress_log
    /\ UNCHANGED <<cancel_at, run_prev, cli, gui, wr, dxf, run_args, run_pc, run_err, runLocals, fs, mrg>>

(* The points built from whatever Z values there are, without waiting for  *)
(* surface_z_from_neighbors to return: not what the code does.             *)
RunZAssignedEarly ==
    /\ run_pc = "zassign"
    /\ IF zpc = "ValueError"
       THEN run_pc' = "Failed" /\ run_err' = "ValueError: z" /\ UNCHANGED cad_pts
       ELSE /\ run_pc' = "write_sf" /\ UNCHANGED run_err
            /\ cad_pts' = [j \in 1..Min2(Len(xy_all), Len(z_out)) |->
                          [x |-> xy_all[j].x, y |-> xy_all[j].y, d |-> xy_all[j].d,
                           fx |-> xy_all[j].fx, fy |-> xy_all[j].fy,
                           z |-> z_out[j].z, fz |-> z_out[j].fz]]
    /\ UNCHANGED <<cancel_at, run_prev, cli, gui, wr, dxf, run_args, progress_log, polylines, poly_layers, samples,
                   sample_layers, xy_all, fs, mrg>>
    /\ UNCHANGED <<densVars, zVars, rdVars>>

(* pipeline.py 241-255: the values returned, zipped with xy_all into pts.  *)
RunZAssigned ==
    /\ run_pc = "zassign"
    /\ zpc \in {"done", "ValueError"}
    /\ IF zpc = "ValueError"
       THEN run_pc' = "Failed" /\ run_err' = "ValueError: z" /\ UNCHANGED cad_pts
       ELSE /\ run_pc' = "write_sf" /\ UNCHANGED run_err
            /\ cad_pts' = [j \in 1..Min2(Len(xy_all), Len(z_out)) |->
                          [x |-> xy_all[j].x, y |-> xy_all[j].y, d |-> xy_all[j].d,
                           fx |-> xy_all[j].fx, fy |-> xy_all[j].fy,
                           z |-> z_out[j].z, fz |-> z_out[j].fz]]
    /\ UNCHANGED <<cancel_at, run_prev, cli, gui, wr, dxf, run_args, progress_log, polylines, poly_layers, samples,
                   sample_layers, xy_all, fs, mrg>>
    /\ UNCHANGED <<densVars, zVars, rdVars>>

(* f"{p.x:.3f} {p.y:.3f} {p.z:.3f} ..." : one line of an XYZ file, the     *)
(* columns after z in `extra`                                              *)
XyzRow(p, extra) ==
    [x |-> Fmt3(p.x, p.d, p.fx), y |-> Fmt3(p.y, p.d, p.fy),
     z |-> Fmt3Of(p.z, QDen, ZFloat(p.fz)), extra |-> extra]

(* write_xyz                                                               *)
write_xyz(ps) ==
    [status |-> "ok",
     file |-> [exists |-> TRUE, layout |-> "xyz",
               rows |-> [j \in 1..Len(ps) |-> XyzRow(ps[j], <<>>)]]]

(* write_xyz_with_id                                                       *)
write_xyz_with_id(ps, poly_ids) ==
    IF Len(ps) # Len(poly_ids) THEN [status |-> "ValueError", file |-> NoFile]
    ELSE [status |-> "ok",
          file |-> [exists |-> TRUE, layout |-> "xyz_id",
                    rows |-> [j \in 1..Len(ps) |-> XyzRow(ps[j], <<poly_ids[j]>>)]]]

(* write_xyz_with_sf: the scalar field is written with 6 decimals, here in *)
(* millionths                                                              *)
write_xyz_with_sf(ps, sf) ==
    IF Len(ps) # Len(sf) THEN [status |-> "ValueError", file |-> NoFile]
    ELSE [status |-> "ok",
          file |-> [exists |-> TRUE, layout |-> "xyz_sf",
                    rows |-> [j \in 1..Len(ps) |-> XyzRow(ps[j], <<1000000 * sf[j]>>)]]]

(* write_xyzrgb                                                            *)
write_xyzrgb(ps, color) ==
    [status |-> "ok",
     file |-> [exists |-> TRUE, layout |-> "xyzrgb",
               rows |-> [j \in 1..Len(ps) |-> XyzRow(ps[j], color)]]]

(* write_xyzrgb_per_point                                                  *)
write_xyzrgb_per_point(ps, rgbs) ==
    IF Len(ps) # Len(rgbs) THEN [status |-> "ValueError", file |-> NoFile]
    ELSE [status |-> "ok",
          file |-> [exists |-> TRUE, layout |-> "xyzrgb",
                    rows |-> [j \in 1..Len(ps) |-> XyzRow(ps[j], rgbs[j])]]]

(* all_layers_one_color or not layer_colors                                *)
OneColor == run_args.all_layers_one_color \/ ~run_args.layer_colors.some
            \/ DOMAIN run_args.layer_colors.map = {}

(* Black for a layer the mapping does not hold: not what the code does.    *)
LayerRgbsNoFallback ==
    [j \in 1..Len(sample_layers) |->
        IF sample_layers[j] \in DOMAIN run_args.layer_colors.map
        THEN run_args.layer_colors.map[sample_layers[j]]
        ELSE <<0, 0, 0>>]

(* [layer_colors.get(ln, rgb) for ln in sample_layers]                     *)
LayerRgbs ==
    [j \in 1..Len(sample_layers) |->
        IF sample_layers[j] \in DOMAIN run_args.layer_colors.map
        THEN run_args.layer_colors.map[sample_layers[j]]
        ELSE run_args.rgb]

(* pipeline.py 257-264: the scalar field and its file.                     *)
RunWriteSf ==
    /\ run_pc = "write_sf"
    /\ IF run_args.write_sf /\ run_args.out_xyz
       THEN LET mode_sf == Lower(IF run_args.sf_mode = "" THEN "const"
                                 ELSE run_args.sf_mode)
                sf == IF mode_sf = "poly_id"
                      THEN [j \in 1..Len(samples) |-> samples[j].poly_id]
                      ELSE [j \in 1..Len(samples) |-> run_args.sf_value]
                w == write_xyz_with_sf(cad_pts, sf)
            IN  IF w.status = "ValueError"
                THEN run_pc' = "Failed" /\ run_err' = "ValueError: sf length" /\ UNCHANGED fs
                ELSE /\ run_pc' = "write_xyz" /\ UNCHANGED run_err
                     /\ fs' = [fs EXCEPT !.xyz = w.file, !.dirs = @ \cup {"xyz"}]
       ELSE run_pc' = "write_xyz" /\ UNCHANGED <<run_err, fs>>
    /\ UNCHANGED <<cancel_at, run_prev, cli, gui, wr, dxf, run_args, progress_log, runLocals, mrg>>
    /\ UNCHANGED <<densVars, zVars, rdVars>>

(* pipeline.py 266-283: the XYZ file, in the layout the flags choose.      *)
RunWriteXyz ==
    /\ run_pc = "write_xyz"
    /\ IF run_args.out_xyz
       THEN LET w == IF run_args.out_rgb
                     THEN IF OneColor THEN write_xyzrgb(cad_pts, run_args.rgb)
                          ELSE write_xyzrgb_per_point(cad_pts, LayerRgbs)
                     ELSE IF run_args.write_poly_id
                     THEN write_xyz_with_id(cad_pts,
                              [j \in 1..Len(samples) |-> samples[j].poly_id])
                     ELSE write_xyz(cad_pts)
            IN  IF w.status = "ValueError"
                THEN /\ run_pc' = "Failed" /\ run_err' = "ValueError: length"
                     /\ progress_log' = Prog(<<48>>)
                     /\ UNCHANGED fs
                ELSE /\ run_pc' = "merge" /\ UNCHANGED run_err
                     /\ progress_log' = Prog(<<48, 52>>)
                     /\ fs' = [fs EXCEPT !.xyz = w.file, !.dirs = @ \cup {"xyz"}]
       ELSE run_pc' = "merge" /\ UNCHANGED <<run_err, progress_log, fs>>
    /\ UNCHANGED <<cancel_at, run_prev, cli, gui, wr, dxf, run_args, runLocals, mrg>>
    /\ UNCHANGED <<densVars, zVars, rdVars>>

(* The 8-bit components stored as they are: not what the code does.        *)
Rgb16Unscaled(c) == c

(* cad_rgbs_u8.astype(np.uint16) * 257                                     *)
Rgb16(c) == <<257 * c[1], 257 * c[2], 257 * c[3]>>

(* np.array(..., dtype=np.uint8) of a colour; components are drawn in      *)
(* 0..255, where the cast changes nothing                                  *)
AsUint8(c) == <<c[1] % 256, c[2] % 256, c[3] % 256>>

(* pipeline.py 285-299 and 36-54: the arrays handed to the merged writer,  *)
(* its directory, its shape checks and the opening of the cloud.           *)
RunMergeEnter ==
    /\ run_pc = "merge"
    /\ IF ~run_args.write_combined_las
       THEN run_pc' = "Done" /\ UNCHANGED <<run_err, progress_log, fs, mrg>>
       ELSE IF ~run_args.out_las
       THEN /\ run_pc' = "Failed" /\ run_err' = "ValueError: out_las"
            /\ UNCHANGED <<progress_log, fs, mrg>>
       ELSE LET cad_rgbs == IF OneColor
                            THEN [j \in 1..Len(cad_pts) |-> AsUint8(run_args.rgb)]
                            ELSE [j \in 1..Len(sample_layers) |-> AsUint8(LayerRgbs[j])]
            IN  /\ fs' = [fs EXCEPT !.dirs = @ \cup {"las"}]
                /\ IF Len(cad_rgbs) # Len(cad_pts)
                   THEN /\ run_pc' = "Failed" /\ run_err' = "ValueError: cad_rgbs_u8 length"
                        /\ UNCHANGED <<progress_log, mrg>>
                   ELSE /\ run_pc' = "merge_read" /\ UNCHANGED run_err
                        /\ progress_log' = Prog(<<55>>)
                        /\ mrg' = [MrgIdle EXCEPT !.cad_xyz = cad_pts,
                                                  !.cad_rgbs = cad_rgbs, !.c = 1]
    /\ UNCHANGED <<cancel_at, run_prev, cli, gui, wr, dxf, run_args, runLocals>>
    /\ UNCHANGED <<densVars, zVars, rdVars>>

(* pipeline.py 56-73: one chunk of the whole cloud.                        *)
RunMergeChunk ==
    /\ run_pc = "merge_read"
    /\ mrg.c <= NChunks(las_file)
    /\ LET points == Chunk(las_file, mrg.c)
           total == Len(las_file.pts)
           read == mrg.read_count + Len(points)
       IN  /\ mrg' = [mrg EXCEPT
                  !.c = @ + 1,
                  !.chunks_xyz = Append(@, [j \in 1..Len(points) |->
                      [e |-> points[j].e, x |-> points[j].x, y |-> points[j].y,
                       z |-> points[j].z]]),
                  !.chunks_rgb = IF las_file.has_rgb
                                 THEN Append(@, [j \in 1..Len(points) |-> points[j].rgb])
                                 ELSE @,
                  !.read_count = read]
           /\ progress_log' = IF total > 0
                              THEN Prog(<<55 + (20 * Min2(read, total)) \div total>>)
                              ELSE progress_log
    /\ UNCHANGED <<cancel_at, run_prev, cli, gui, wr, dxf, run_args, run_pc, run_err, runLocals, fs>>
    /\ UNCHANGED <<densVars, zVars, rdVars>>

(* The last chunk alone: not what the code does.                           *)
vstackLast(chunks) == IF chunks = <<>> THEN <<>> ELSE chunks[Len(chunks)]

(* np.vstack                                                               *)
RECURSIVE vstack(_)
vstack(chunks) == IF chunks = <<>> THEN <<>> ELSE Head(chunks) \o vstack(Tail(chunks))

(* np.round of n / d (d > 0): the nearest whole number, a tie going to the *)
(* even one.                                                               *)
RoundHalfEven(n, d) ==
    LET q == n \div d
        r == n % d
    IN  IF 2 * r < d THEN q
        ELSE IF 2 * r > d THEN q + 1
        ELSE IF q % 2 = 0 THEN q ELSE q + 1

(* What laspy stores for the float v of the coordinate n / d under a scale *)
(* and a whole offset: np.round((v - offset) / scale).  Where the exact    *)
(* quotient lies halfway between two whole numbers, the float quotient     *)
(* decides.  StoredOf takes the float v itself, Stored how it was computed *)
(* (densify.py 29-31).                                                     *)
StoredOf(n, d, v, scale, off) ==
    IF 2 * (((n - off * d) * scale.d) % (d * scale.n)) = d * scale.n
    THEN FRound(FDiv(FSub(v, FromInt(off)),
                     FDiv(FromInt(scale.n), FromInt(scale.d))))
    ELSE RoundHalfEven((n - off * d) * scale.d, d * scale.n)

Stored(n, d, f, scale, off) == StoredOf(n, d, Float(f), scale, off)

(* The value fits the int32 of a LAS coordinate; laspy raises              *)
(* OverflowError when it does not.                                         *)
FitsInt32(v) == Int32Min <= v /\ v <= Int32Max

(* all_xyz: base_xyz, then cad_pts_xyz; a row is (x / d, y / d, z / zd)    *)
(* with how the floats of the three were computed                          *)
AllXyz(base_xyz, cad_xyz) ==
    [j \in 1..(Len(base_xyz) + Len(cad_xyz)) |->
        IF j <= Len(base_xyz)
        THEN [e |-> base_xyz[j].e, x |-> base_xyz[j].x, y |-> base_xyz[j].y, d |-> 1,
              fx |-> Whole(base_xyz[j].x), fy |-> Whole(base_xyz[j].y),
              z |-> base_xyz[j].z, zd |-> 1, fz |-> ZWhole(base_xyz[j].z)]
        ELSE LET q == cad_xyz[j - Len(base_xyz)]
             IN  [e |-> 0, x |-> q.x, y |-> q.y, d |-> q.d, fx |-> q.fx, fy |-> q.fy,
                  z |-> q.z, zd |-> QDen, fz |-> q.fz]]

(* out.x, out.y, out.z = all_xyz[:, 0], all_xyz[:, 1], all_xyz[:, 2] under *)
(* the scales and offsets of a header: the integers X, Y, Z stored         *)
StoredXyz(row, scales, offsets) ==
    [X |-> Stored(row.x, row.d, row.fx, scales[1], offsets[1]),
     Y |-> Stored(row.y, row.d, row.fy, scales[2], offsets[2]),
     Z |-> StoredOf(row.z, row.zd, ZFloat(row.fz), scales[3], offsets[3])]

(* pipeline.py 75-126: the merged arrays and the file written, with the    *)
(* scales and offsets of the cloud file.  A row of the file is the         *)
(* integers X, Y, Z with the 16-bit colour.  A row with e # 0 is more than *)
(* 2^32 cells from the origin and fits no int32.                           *)
RunMergeWrite ==
    /\ run_pc = "merge_read"
    /\ mrg.c > NChunks(las_file)
    /\ LET base_xyz == vstack(mrg.chunks_xyz)
           base_rgb16 == vstack(mrg.chunks_rgb)
           n_base == Len(base_xyz)
           n_cad == Len(mrg.cad_xyz)
           keep_rgb == las_file.has_rgb /\ mrg.chunks_rgb # <<>> /\ Len(base_rgb16) = n_base
           all_xyz == AllXyz(base_xyz, mrg.cad_xyz)
           out == [j \in 1..(n_base + n_cad) |->
                      StoredXyz(all_xyz[j], las_file.scales, las_file.offsets)]
           rows == [j \in 1..(n_base + n_cad) |->
                      [X |-> out[j].X, Y |-> out[j].Y, Z |-> out[j].Z,
                       rgb |-> IF j <= n_base
                               THEN IF keep_rgb THEN base_rgb16[j] ELSE <<0, 0, 0>>
                               ELSE Rgb16(mrg.cad_rgbs[j - n_base])]]
       IN  IF \A j \in 1..(n_base + n_cad) :
                 /\ all_xyz[j].e = 0
                 /\ FitsInt32(out[j].X) /\ FitsInt32(out[j].Y) /\ FitsInt32(out[j].Z)
           THEN /\ fs' = [fs EXCEPT !.las = [exists |-> TRUE, layout |-> "las",
                                             rows |-> rows,
                                             scales |-> las_file.scales,
                                             offsets |-> las_file.offsets]]
                /\ progress_log' = Prog(<<95, 100>>)
                /\ run_pc' = "Done"
                /\ UNCHANGED run_err
           ELSE /\ run_pc' = "Failed" /\ run_err' = "OverflowError"
                /\ UNCHANGED <<fs, progress_log>>
    /\ UNCHANGED <<cancel_at, run_prev, cli, gui, wr, dxf, run_args, runLocals, mrg>>
    /\ UNCHANGED <<densVars, zVars, rdVars>>

----------------------------------------------------------------------------
(* The densifier alone: a polyline and a step are drawn, then              *)
(* densify_polyline is called once.                                        *)

(* Elevations: a polyline without elevation (z = None at every vertex), or *)
(* vertex i at elevation i.                                                *)
XYs == (0..MaxX) \X (0..MaxY)

PolyOf(xys, hasz) ==
    [i \in 1..Len(xys) |-> Vertex(xys[i][1], xys[i][2], hasz, IF hasz THEN i ELSE 0)]

DensIdle == vertices = <<>> /\ step_m = 1 /\ dens = [status |-> "idle", pts |-> <<>>]

InitDensify ==
    /\ \E n \in 0..MaxVerts : \E xys \in [1..n -> XYs] : \E hz \in BOOLEAN :
           vertices = PolyOf(xys, hz)
    /\ step_m \in 0..MaxStep
    /\ dens = [status |-> "idle", pts |-> <<>>]
    /\ ZIdle
    /\ RdIdle
    /\ RunIdle

CallDensify ==
    /\ dens.status = "idle"
    /\ dens' = densify_polyline(vertices, step_m, EpsFine)
    /\ UNCHANGED <<vertices, step_m, zVars, rdVars, runVars>>

NextDensify == CallDensify

SpecDensify == InitDensify /\ [][NextDensify]_vars

----------------------------------------------------------------------------
(* The neighbour query alone: a cloud, one sample and a radius are drawn,  *)
(* k and the quantile are the command line's defaults, and                 *)
(* surface_z_from_neighbors is called once.                                *)

KDefault == 64

QDefault == 2

Epochs == {0, 1}

GridPos == [e : Epochs, x : (0 - 1)..MaxGX, y : 0..MaxGY]

(* Clouds of n rows; row j has elevation j.                                *)
CloudsAt(n) ==
    { [j \in 1..n |-> [e |-> f[j].e, x |-> f[j].x, y |-> f[j].y, z |-> j]]
      : f \in [1..n -> GridPos] }

(* Samples at half-unit x.                                                 *)
GridSamples ==
    { [e |-> e, x |-> IF xn % 2 = 0 THEN xn \div 2 ELSE xn, y |-> IF xn % 2 = 0 THEN y ELSE 2 * y,
       d |-> IF xn % 2 = 0 THEN 1 ELSE 2,
       fx |-> IF xn % 2 = 0 THEN Whole(xn \div 2) ELSE Via(0, 1, xn, 2), fy |-> Whole(y)]
      : e \in Epochs, xn \in (0 - 2)..(2 * MaxGX + 1), y \in 0..MaxGY }

InitGrid ==
    /\ \E n \in 0..MaxCloud : cloud_xyz \in CloudsAt(n)
    /\ samples_xy \in { <<s>> : s \in GridSamples }
    /\ radius_m \in 1..MaxR
    /\ z_k = KDefault
    /\ quantile = QDefault
    /\ fallback_z = 0
    /\ offset = 0
    /\ z_progress \in BOOLEAN
    /\ build \in [cast : CastBuilds, rng : {0}, part : {NoPartitions}]
    /\ keys = <<>> /\ zpc = "call" /\ z_i = 0 /\ last_p = 0 - 1
    /\ z_prog = <<>> /\ z_out = <<>>
    /\ DensIdle
    /\ RdIdle
    /\ RunIdle

NextGrid ==
    \/ ZEnter /\ UNCHANGED <<densVars, rdVars, runVars>>
    \/ ZSample /\ UNCHANGED <<densVars, rdVars, runVars>>
    \/ ZReturn /\ UNCHANGED <<densVars, rdVars, runVars>>

SpecGrid == InitGrid /\ [][NextGrid]_vars

----------------------------------------------------------------------------
(* The bounded reader alone: a file, a cap and the bbox [1, 2] x [0, 0]    *)
(* are drawn, and read_las_points_in_bbox is called MaxCalls times with    *)
(* the same arguments.                                                     *)

SrcPos == [x : 0..MaxSrcX, y : {0, 1}]

FilesAt(n, rgb) ==
    { LasFile([j \in 1..n |-> [e |-> 0, x |-> f[j].x, y |-> f[j].y, z |-> j,
                                rgb |-> <<0, 0, 0>>]],
              rgb, Metre)
      : f \in [1..n -> SrcPos] }

InitReader ==
    /\ \E n \in 0..MaxSrc : las_file \in FilesAt(n, FALSE)
    /\ rd_bbox = [minx |-> Rat(1, 1), miny |-> Rat(0, 1), maxx |-> Rat(2, 1), maxy |-> Rat(0, 1)]
    /\ max_points \in {NoCap} \cup { Cap(n) : n \in (0 - 1)..MaxCap }
    /\ rd_pc = "call" /\ rd_c = 0 /\ rd_xs = <<>> /\ rd_ret = <<>>
    /\ rd_err = NoError
    /\ rd_calls = 0
    /\ rd_prev = <<>>
    /\ DensIdle
    /\ RunIdle
    /\ ZIdle

NextReader ==
    \/ RdEnter /\ UNCHANGED <<densVars, zVars, runVars>>
    \/ RdChunk /\ UNCHANGED <<densVars, zVars, runVars>>
    \/ RdExhausted /\ UNCHANGED <<densVars, zVars, runVars>>
    \/ RdFinish /\ UNCHANGED <<densVars, zRest, runVars>>
    \/ RdAgain /\ UNCHANGED <<densVars, zVars, runVars>>

SpecReader == InitReader /\ [][NextReader]_vars

----------------------------------------------------------------------------
(* A pipeline run: a drawing, a cloud file and the arguments are drawn,    *)
(* then run is called once.                                                *)

MaxEnt == 4

MaxRunCloud == 4

(* An entity of the modelspace: is_2d_polyline and is_3d_polyline are the  *)
(* properties of a POLYLINE, FALSE on every other entity.                  *)
Ent(t, layer, verts, is2d, is3d) ==
    [t |-> t, layer |-> layer, verts |-> verts,
     is_2d_polyline |-> is2d, is_3d_polyline |-> is3d]

(* Entity j of the modelspace: by turns a LWPOLYLINE on layer A without    *)
(* elevation, a 3D POLYLINE on layer B, a POLYLINE that is a polygon mesh, *)
(* and a LINE of length 0 on no layer.                                     *)
Entity(j) ==
    CASE j % 4 = 1 -> Ent("LWPOLYLINE", "A",
                          <<Vertex(0, j - 1, FALSE, 0), Vertex(5, j - 1, FALSE, 0)>>,
                          FALSE, FALSE)
      [] j % 4 = 2 -> Ent("POLYLINE", "B",
                          <<Vertex(5, j - 2, TRUE, 0), Vertex(5, j, TRUE, 0)>>,
                          FALSE, TRUE)
      [] j % 4 = 3 -> Ent("POLYLINE", "B",
                          <<Vertex(0, 0, TRUE, 0), Vertex(1, 0, TRUE, 0),
                            Vertex(0, 1, TRUE, 0), Vertex(1, 1, TRUE, 0)>>,
                          FALSE, FALSE)
      [] OTHER -> Ent("LINE", "",
                      <<Vertex(0, j - 2, TRUE, 0), Vertex(0, j - 2, TRUE, 0)>>,
                      FALSE, FALSE)

(* The drawings: entities a .. b.                                          *)
Drawings ==
    { [j \in 1..(b - a + 1) |-> Entity(a + j - 1)] : a \in 1..MaxEnt, b \in 0..MaxEnt }

(* Row j of the cloud file, with the colour it has if the file stores      *)
(* colours.                                                                *)
SrcRow(j) ==
    LET xy == CASE j = 1 -> <<0, 0>>
                [] j = 2 -> <<9, 0>>
                [] j = 3 -> <<5, 0>>
                [] j = 4 -> <<5, 2>>
                [] OTHER -> <<j % 7, j % 4>>
    IN  [e |-> 0, x |-> xy[1], y |-> xy[2], z |-> (7 * j) % 10,
         rgb |-> <<256 * j, 65535, 0>>]

(* The cloud files: the first n rows, without colours and stored with a    *)
(* scale of 1 m, or (no row or all rows) with colours and stored with a    *)
(* scale of 1/4 m.                                                         *)
CloudFiles ==
    { LasFile([j \in 1..n |-> SrcRow(j)], FALSE, Metre) : n \in 0..MaxRunCloud }
    \cup
    { LasFile([j \in 1..n |-> SrcRow(j)], TRUE, QuarterMetre) : n \in {0, MaxRunCloud} }

ArgsBase ==
    [step_m |-> 2, layer |-> "", cloud_ext |-> ".las", z_mode |-> "surface_p10",
     z_offset |-> 1, z_radius_m |-> 2, z_k |-> KDefault, z_quantile |-> QDefault,
     las_max_points |-> NoCap, write_poly_id |-> FALSE, out_rgb |-> TRUE,
     rgb |-> <<255, 0, 0>>, layers_selected |-> NoLayers, layer_colors |-> NoColors,
     all_layers_one_color |-> FALSE, write_combined_las |-> TRUE, out_las |-> TRUE,
     write_sf |-> FALSE, sf_mode |-> "const", sf_value |-> 1, out_xyz |-> TRUE,
     progress |-> TRUE,
     assume_same_crs |-> TRUE, cad_crs_str |-> "", cloud_crs_str |-> ""]

(* The layouts of the XYZ file: out_rgb, write_poly_id, write_sf, sf_mode. *)
XyzKinds ==
    { <<FALSE, FALSE, FALSE, "const">>, <<FALSE, TRUE, FALSE, "const">>,
      <<TRUE, FALSE, FALSE, "const">>, <<FALSE, FALSE, TRUE, "const">>,
      <<TRUE, TRUE, TRUE, "poly_id">> }

(* layer_colors with all_layers_one_color.                                 *)
Colorings ==
    { <<NoColors, FALSE>>,
      <<[some |-> TRUE, map |-> [ln \in {"A"} |-> <<0, 255, 0>>]], FALSE>>,
      <<[some |-> TRUE,
         map |-> [ln \in {"A", "B"} |-> IF ln = "A" THEN <<0, 255, 0>> ELSE <<0, 0, 128>>]],
        FALSE>>,
      <<[some |-> TRUE, map |-> [ln \in {"A"} |-> <<0, 255, 0>>]], TRUE>> }

(* A layout with a colouring: every layout without layer colours, and the  *)
(* XYZ+RGB layout with every colouring.                                    *)
Styles ==
    { <<kd, <<NoColors, FALSE>>>> : kd \in XyzKinds }
    \cup { <<<<TRUE, FALSE, FALSE, "const">>, cl>> : cl \in Colorings }

(* What a run writes, with the styles that show in it: every style in a    *)
(* run that writes the XYZ file, the colourings in a run that writes the   *)
(* merged cloud alone, one style in a run that writes nothing.             *)
Outputs ==
    { <<ox, wl, sty>> \in BOOLEAN \X BOOLEAN \X Styles :
        \/ ox
        \/ wl /\ sty[1] = <<TRUE, FALSE, FALSE, "const">>
        \/ sty = <<<<TRUE, FALSE, FALSE, "const">>, <<NoColors, FALSE>>>> }

(* Runs that differ in what they write and in how they colour it.          *)
ArgsOut ==
    { [ArgsBase EXCEPT !.out_xyz = o[1], !.write_combined_las = o[2],
                       !.out_rgb = o[3][1][1], !.write_poly_id = o[3][1][2],
                       !.write_sf = o[3][1][3], !.sf_mode = o[3][1][4],
                       !.layer_colors = o[3][2][1],
                       !.all_layers_one_color = o[3][2][2]]
      : o \in Outputs }

(* The radius with k.                                                      *)
Searches == { <<2, KDefault>>, <<2, 1>>, <<3, 1>> }

(* Runs that differ in what they read and assign.                          *)
ArgsZ ==
    { [ArgsBase EXCEPT !.z_mode = zm, !.z_radius_m = rk[1], !.z_k = rk[2]]
      : zm \in {"surface_p10", "surface_offset", "p95"}, rk \in Searches }
    \cup
    { [ArgsBase EXCEPT !.z_radius_m = rk[1], !.z_k = rk[2], !.las_max_points = mp]
      : rk \in Searches, mp \in {Cap(0), Cap(1)} }

(* Runs that differ in the layers they extract.                            *)
ArgsLayer ==
    { [ArgsBase EXCEPT !.layer = "A"],
      [ArgsBase EXCEPT !.layers_selected = [some |-> TRUE, names |-> {"B"}]],
      [ArgsBase EXCEPT !.layers_selected = [some |-> TRUE, names |-> {""}],
                       !.layer_colors = [some |-> TRUE,
                                         map |-> [ln \in {"B"} |-> <<0, 0, 128>>]]] }

(* Runs that differ in the quantile.                                       *)
ArgsQ ==
    { [ArgsBase EXCEPT !.z_quantile = q, !.z_radius_m = 4] : q \in {0, 10, QDen} }

(* Runs with one argument that run or a stage of it rejects.               *)
ArgsBad ==
    { [ArgsBase EXCEPT !.z_mode = "median"], [ArgsBase EXCEPT !.step_m = 0],
      [ArgsBase EXCEPT !.z_radius_m = 0], [ArgsBase EXCEPT !.z_k = 0],
      [ArgsBase EXCEPT !.z_quantile = QDen + 1],
      [ArgsBase EXCEPT !.z_quantile = 0 - 1],
      [ArgsBase EXCEPT !.cloud_ext = ".txt"], [ArgsBase EXCEPT !.out_las = FALSE] }

(* Runs whose strings are spelled in other cases, and a mode that only     *)
(* starts as the relief-following ones do.                                 *)
ArgsSpelled ==
    { [ArgsBase EXCEPT !.z_mode = zm] : zm \in {"Surface_P10", "SURFACE_OFFSET", "P95",
                                                "Median", "surface"} }
    \cup { [ArgsBase EXCEPT !.cloud_ext = ".LAZ"],
           [ArgsBase EXCEPT !.out_rgb = FALSE, !.write_sf = TRUE, !.sf_mode = "POLY_ID"],
           [ArgsBase EXCEPT !.out_rgb = FALSE, !.write_sf = TRUE, !.sf_mode = ""] }

(* Runs without a progress callback.                                       *)
ArgsQuiet ==
    { [ArgsBase EXCEPT !.progress = FALSE, !.write_combined_las = wl] : wl \in BOOLEAN }

(* assume_same_crs with cad_crs_str and cloud_crs_str: off with no CRS     *)
(* given, with one, with the same twice, with two that differ and with one *)
(* pyproj cannot read; on with two that differ.                            *)
CrsChoices ==
    { <<FALSE, "", "">>, <<FALSE, "", CrsHalfMetres>>, <<FALSE, CrsMetres, CrsMetres>>,
      <<FALSE, CrsMetres, CrsHalfMetres>>, <<FALSE, CrsMetres, "EPSG:0">>,
      <<TRUE, CrsMetres, CrsHalfMetres>> }

(* Runs that differ in the reprojection of the drawing, coloured by layer. *)
ArgsCrs ==
    { [ArgsBase EXCEPT !.assume_same_crs = c[1], !.cad_crs_str = c[2],
                       !.cloud_crs_str = c[3],
                       !.layer_colors =
                           [some |-> TRUE,
                            map |-> [ln \in {"A", "B"} |->
                                        IF ln = "A" THEN <<0, 255, 0>> ELSE <<0, 0, 128>>]]]
      : c \in CrsChoices }

(* The builds a run of `a` on the cloud file f starts on.  The rows of the *)
(* clouds drawn are within the int32 cells, so no cast is out of range;    *)
(* the build has drawn and partitioned nothing yet.                        *)
RunBuilds(a, f) ==
    [cast : {"indefinite"}, rng : {NoDraws}, part : {NoPartitions}]

(* The state in which run is called with arguments of the set A.           *)
InitRunOf(A) ==
    /\ dxf \in Drawings
    /\ las_file \in CloudFiles
    /\ run_args \in A
    /\ run_pc = "start" /\ run_err = "" /\ progress_log = <<>>
    /\ polylines = <<>> /\ poly_layers = <<>> /\ samples = <<>>
    /\ sample_layers = <<>> /\ xy_all = <<>> /\ cad_pts = <<>>
    /\ fs = NoFiles /\ mrg = MrgIdle /\ cancel_at = "" /\ run_prev = <<>>
    /\ cli = CliIdle /\ gui = GuiIdle /\ wr = WrIdle
    /\ rd_bbox = ZeroBBox /\ max_points = NoCap
    /\ rd_pc = "idle" /\ rd_c = 0 /\ rd_xs = <<>> /\ rd_ret = <<>>
    /\ rd_err = NoError /\ rd_calls = 0 /\ rd_prev = <<>>
    /\ DensIdle
    /\ \E b \in RunBuilds(run_args, las_file) : ZIdleOn(b)

InitRun ==
    InitRunOf(ArgsOut \cup ArgsZ \cup ArgsQ \cup ArgsLayer \cup ArgsBad
              \cup ArgsSpelled \cup ArgsQuiet \cup ArgsCrs)

NextRun ==
    \/ RunExtract
    \/ RunAppendSample
    \/ RunAppendLayer
    \/ RunBBox
    \/ RdEnter /\ UNCHANGED <<densVars, zVars, runVars>>
    \/ RdChunk /\ UNCHANGED <<densVars, zVars, runVars>>
    \/ RdExhausted /\ UNCHANGED <<densVars, zVars, runVars>>
    \/ RdFinish /\ UNCHANGED <<densVars, zRest, runVars>>
    \/ RunCloudLoaded
    \/ ZEnter /\ UNCHANGED <<densVars, rdVars, runVars>>
    \/ ZSample /\ RunZProgress /\ UNCHANGED <<densVars, rdVars>>
    \/ ZReturn /\ UNCHANGED <<densVars, rdVars, runVars>>
    \/ RunZAssigned
    \/ RunWriteSf
    \/ RunWriteXyz
    \/ RunMergeEnter
    \/ RunMergeChunk
    \/ RunMergeWrite

SpecRun == InitRun /\ [][NextRun]_vars

----------------------------------------------------------------------------
(* A pipeline run whose caller asks to cancel it: at most once, while the  *)
(* run is in the chunk loop of the reader, in the per-sample loop of Z     *)
(* assignment or in the chunk loop of the merged writer.  The request      *)
(* reaches nothing of the run: run has no parameter and reads no flag      *)
(* through which it could.                                                 *)

RequestCancel ==
    /\ cancel_at = ""
    /\ \/ run_pc = "reading" /\ rd_pc = "loop" /\ cancel_at' = "read"
       \/ run_pc = "zassign" /\ zpc = "loop" /\ cancel_at' = "z"
       \/ run_pc = "merge_read" /\ cancel_at' = "merge"
    /\ UNCHANGED <<run_prev, cli, gui, wr, dxf, run_args, run_pc, run_err, progress_log, runLocals, fs, mrg>>
    /\ UNCHANGED <<densVars, zVars, rdVars>>

ArgsCancel ==
    { [ArgsBase EXCEPT !.las_max_points = mp, !.write_combined_las = wl]
      : mp \in {NoCap, Cap(1)}, wl \in BOOLEAN }

InitCancel == InitRunOf(ArgsCancel)

NextCancel ==
    \/ NextRun
    \/ RequestCancel

SpecCancel == InitCancel /\ [][NextCancel]_vars

----------------------------------------------------------------------------
(* The end-to-end scenario: the polyline (0, 0) - (10, 0) with step 5 and  *)
(* the cloud (0, 0, 1), (5, 0, 2), (10, 0, 3), (5, 0, 100), in metres;     *)
(* k = 1, quantile 0 and a radius that reaches every point from every      *)
(* sample.  run is called MaxRuns times with the same arguments and files, *)
(* on each build.                                                          *)

MaxRuns == 2

ScenarioDrawing ==
    << Ent("LWPOLYLINE", "A", <<Vertex(0, 0, FALSE, 0), Vertex(10, 0, FALSE, 0)>>,
           FALSE, FALSE) >>

ScenarioRows ==
    << [e |-> 0, x |-> 0, y |-> 0, z |-> 1, rgb |-> <<0, 0, 0>>],
       [e |-> 0, x |-> 5, y |-> 0, z |-> 2, rgb |-> <<0, 0, 0>>],
       [e |-> 0, x |-> 10, y |-> 0, z |-> 3, rgb |-> <<0, 0, 0>>],
       [e |-> 0, x |-> 5, y |-> 0, z |-> 100, rgb |-> <<0, 0, 0>>] >>

ArgsScenario ==
    { [ArgsBase EXCEPT !.step_m = 5, !.z_radius_m = r, !.z_k = 1, !.z_quantile = 0,
                       !.out_xyz = ox, !.write_combined_las = wl]
      : r \in {10, 20}, ox \in BOOLEAN, wl \in BOOLEAN }

InitScenario ==
    /\ dxf = ScenarioDrawing
    /\ las_file \in { LasFile(ScenarioRows, c, Metre) : c \in BOOLEAN }
    /\ run_args \in ArgsScenario
    /\ run_pc = "start" /\ run_err = "" /\ progress_log = <<>>
    /\ polylines = <<>> /\ poly_layers = <<>> /\ samples = <<>>
    /\ sample_layers = <<>> /\ xy_all = <<>> /\ cad_pts = <<>>
    /\ fs = NoFiles /\ mrg = MrgIdle /\ cancel_at = "" /\ run_prev = <<>>
    /\ cli = CliIdle /\ gui = GuiIdle /\ wr = WrIdle
    /\ rd_bbox = ZeroBBox /\ max_points = NoCap
    /\ rd_pc = "idle" /\ rd_c = 0 /\ rd_xs = <<>> /\ rd_ret = <<>>
    /\ rd_err = NoError /\ rd_calls = 0 /\ rd_prev = <<>>
    /\ DensIdle
    /\ \E b \in Builds : ZIdleOn(b)

(* run has returned or raised, and is called again: the files written stay *)
(* on disk, every local starts afresh.                                     *)
RunAgain ==
    /\ run_pc \in {"Done", "Failed"}
    /\ Len(run_prev) + 1 < MaxRuns
    /\ run_prev' = Append(run_prev, [pc |-> run_pc, err |-> run_err, pts |-> cad_pts,
                                     xyz |-> fs.xyz, las |-> fs.las])
    /\ run_pc' = "start" /\ run_err' = "" /\ progress_log' = <<>>
    /\ polylines' = <<>> /\ poly_layers' = <<>> /\ samples' = <<>>
    /\ sample_layers' = <<>> /\ xy_all' = <<>> /\ cad_pts' = <<>>
    /\ mrg' = MrgIdle
    /\ keys' = <<>> /\ zpc' = "idle" /\ z_i' = 0 /\ last_p' = 0 - 1
    /\ z_prog' = <<>> /\ z_out' = <<>>
    /\ UNCHANGED <<zArgs, dxf, run_args, fs, cancel_at, cli, gui, wr, densVars, rdVars>>

NextScenario ==
    \/ NextRun
    \/ RunAgain

SpecScenario == InitScenario /\ [][NextScenario]_vars

----------------------------------------------------------------------------
(* The command line, cad_boundary_to_cc.py: main parses the flags, builds  *)
(* the keyword arguments and calls run.  The lengths of the command line   *)
(* (the preset steps 2.0, 1.0, 0.5 and 0.2, the default step, offset and   *)
(* radius) are in thousandths of a metre; the run called is not followed.  *)

(* The parameters of run, and those without a default.                     *)
RunParams ==
    {"dxf_path", "cloud_path", "out_xyz", "step_m", "layer", "assume_same_crs",
     "cad_crs_str", "cloud_crs_str", "z_mode", "z_offset", "z_radius_m", "z_k",
     "z_quantile", "las_max_points", "write_poly_id", "out_rgb", "rgb",
     "layers_selected", "layer_colors", "all_layers_one_color", "write_combined_las",
     "out_las", "write_sf", "sf_mode", "sf_value", "progress"}

RunRequired ==
    {"dxf_path", "cloud_path", "out_xyz", "step_m", "layer", "assume_same_crs",
     "cad_crs_str", "cloud_crs_str", "z_mode", "z_offset", "z_radius_m", "z_k",
     "z_quantile", "las_max_points", "write_poly_id", "out_rgb", "rgb"}

(* --density: the preset step, "" when the flag is absent                  *)
Densities == {"", "low", "medium", "high", "ultra"}

PresetStep(density) ==
    LET preset == Lower(density)
    IN  CASE preset = "low" -> 2000
          [] preset = "medium" -> 1000
          [] preset = "high" -> 500
          [] preset = "ultra" -> 200

(* --rgb after int() of its parts: three in range, three out of range, two *)
RgbParts == {<<255, 0, 0>>, <<300, 0 - 5, 7>>, <<1, 2>>}

(* The flags parsed; --dxf, --cloud and --out are required and given, and  *)
(* --step-m, --z-offset, --z-radius-m, --z-k, --z-quantile keep their      *)
(* defaults.                                                               *)
CliFlags ==
    [density : Densities, layer : {"", "A"}, cad_crs : {"", "3857"},
     z_mode : {"p95", "median", "surface_p10"}, las_max_points : {0, 2},
     write_poly_id : BOOLEAN, no_rgb : BOOLEAN, prefer_dxf_z : BOOLEAN,
     rgb : RgbParts]

(* max(0, min(255, c))                                                     *)
Clamp255(c) == Max2(0, Min2(255, c))

(* cad_boundary_to_cc.py 94-113: the keyword arguments of the call of run  *)
MainKeywords(f) ==
    [dxf_path |-> "dxf", cloud_path |-> "cloud.las", out_xyz |-> "out",
     step_m |-> IF f.density # "" THEN PresetStep(f.density) ELSE 1000,
     layer |-> f.layer,
     assume_same_crs |-> (f.cad_crs = ""),
     cad_crs_str |-> f.cad_crs, cloud_crs_str |-> "",
     z_mode |-> f.z_mode, z_offset |-> 1000, z_radius_m |-> 2000, z_k |-> KDefault,
     z_quantile |-> QDefault,
     las_max_points |-> IF f.las_max_points = 0 THEN NoCap ELSE Cap(f.las_max_points),
     write_poly_id |-> f.write_poly_id,
     prefer_dxf_z |-> f.prefer_dxf_z,
     out_rgb |-> (~f.no_rgb /\ ~f.write_poly_id),
     rgb |-> <<Clamp255(f.rgb[1]), Clamp255(f.rgb[2]), Clamp255(f.rgb[3])>>]

(* cad_boundary_to_cc.py 72-92: the flags are parsed and --rgb is checked. *)
CliMain ==
    /\ cli.pc = "main"
    /\ IF Len(cli.flags.rgb) # 3
       THEN cli' = [cli EXCEPT !.pc = "ValueError"]
       ELSE cli' = [cli EXCEPT !.pc = "call", !.kw = MainKeywords(cli.flags)]
    /\ UNCHANGED <<densVars, zVars, rdVars>>
    /\ UNCHANGED <<dxf, run_args, run_pc, run_err, progress_log, runLocals, fs, mrg,
                   cancel_at, run_prev, gui, wr>>

(* The arguments of run that the keywords of a call bind, the parameters   *)
(* not passed at their defaults.                                           *)
BoundArgs(kw) ==
    [ArgsIdle EXCEPT !.step_m = kw.step_m, !.layer = kw.layer, !.z_mode = kw.z_mode,
                     !.z_offset = kw.z_offset, !.z_radius_m = kw.z_radius_m,
                     !.z_k = kw.z_k, !.z_quantile = kw.z_quantile,
                     !.las_max_points = kw.las_max_points,
                     !.write_poly_id = kw.write_poly_id, !.out_rgb = kw.out_rgb,
                     !.rgb = kw.rgb, !.out_xyz = TRUE,
                     !.assume_same_crs = kw.assume_same_crs,
                     !.cad_crs_str = kw.cad_crs_str,
                     !.cloud_crs_str = kw.cloud_crs_str]

(* cad_boundary_to_cc.py 94: the call of run binds the keywords to the     *)
(* parameters of pipeline.py 154-181; a keyword that is no parameter, or a *)
(* parameter without default that is not passed, raises TypeError before   *)
(* the body of run is entered.                                             *)
CliCall ==
    /\ cli.pc = "call"
    /\ IF DOMAIN cli.kw \subseteq RunParams /\ RunRequired \subseteq DOMAIN cli.kw
       THEN /\ cli' = [cli EXCEPT !.pc = "run"]
            /\ run_pc' = "start" /\ run_args' = BoundArgs(cli.kw)
       ELSE /\ cli' = [cli EXCEPT !.pc = "TypeError"]
            /\ UNCHANGED <<run_pc, run_args>>
    /\ UNCHANGED <<densVars, zVars, rdVars>>
    /\ UNCHANGED <<dxf, run_err, progress_log, runLocals, fs, mrg, cancel_at, run_prev, gui, wr>>

InitCli ==
    /\ DensIdle /\ ZIdle /\ RdIdle
    /\ dxf = <<>> /\ run_args = ArgsIdle /\ run_pc = "idle" /\ run_err = ""
    /\ progress_log = <<>>
    /\ polylines = <<>> /\ poly_layers = <<>> /\ samples = <<>>
    /\ sample_layers = <<>> /\ xy_all = <<>> /\ cad_pts = <<>>
    /\ fs = NoFiles /\ mrg = MrgIdle /\ cancel_at = "" /\ run_prev = <<>>
    /\ gui = GuiIdle /\ wr = WrIdle
    /\ \E f \in CliFlags : cli = [pc |-> "main", flags |-> f, kw |-> <<>>]

NextCli ==
    \/ CliMain
    \/ CliCall

SpecCli == InitCli /\ [][NextCli]_vars

----------------------------------------------------------------------------
(* The writers called on their own, with parallel arrays of any lengths up *)
(* to MaxArr: write_xyz_with_id, write_xyz_with_sf, write_xyzrgb_per_point *)
(* and _write_combined_las_with_cad_points.  The directory of the output   *)
(* path exists or not (dirs0: the directories there at the call).          *)

MaxArr == 2

WrPoints(n) ==
    [j \in 1..n |-> [x |-> j, y |-> 0, d |-> 1, fx |-> Whole(j), fy |-> Whole(0),
                     z |-> QDen * j, fz |-> ZWhole(j)]]

WrOther(fn, m) ==
    [j \in 1..m |-> CASE fn = "write_xyz_with_id" -> j - 1
                      [] fn = "write_xyz_with_sf" -> 1
                      [] OTHER -> <<0, 255, 0>>]

XyzWriters == {"write_xyz_with_id", "write_xyz_with_sf", "write_xyzrgb_per_point"}

(* export_xyz.py 29-63: one of the XYZ writers with a second array         *)
WrXyzCall ==
    /\ wr.pc = "call" /\ wr.fn \in XyzWriters
    /\ LET w == CASE wr.fn = "write_xyz_with_id" -> write_xyz_with_id(wr.pts, wr.other)
                  [] wr.fn = "write_xyz_with_sf" -> write_xyz_with_sf(wr.pts, wr.other)
                  [] OTHER -> write_xyzrgb_per_point(wr.pts, wr.other)
       IN  IF w.status = "ValueError"
           THEN wr' = [wr EXCEPT !.pc = "ValueError"] /\ UNCHANGED fs
           ELSE /\ wr' = [wr EXCEPT !.pc = "returned"]
                /\ fs' = [fs EXCEPT !.xyz = w.file, !.dirs = @ \cup {"xyz"}]
    /\ UNCHANGED <<densVars, zVars, rdVars>>
    /\ UNCHANGED <<dxf, run_args, run_pc, run_err, progress_log, runLocals, mrg,
                   cancel_at, run_prev, cli, gui>>

(* The arrays taken as they are, the shorter deciding what is written: not *)
(* what the code does.                                                     *)
WrCombinedEnterUnchecked ==
    /\ wr.pc = "call" /\ wr.fn = "_write_combined_las_with_cad_points"
    /\ fs' = [fs EXCEPT !.dirs = @ \cup {"las"}]
    /\ wr' = [wr EXCEPT !.pc = "entered"]
    /\ run_pc' = "merge_read"
    /\ progress_log' = Prog(<<55>>)
    /\ mrg' = [MrgIdle EXCEPT !.cad_xyz = SubSeq(wr.pts, 1, Min2(Len(wr.pts), Len(wr.other))),
                              !.cad_rgbs = SubSeq(wr.other, 1, Min2(Len(wr.pts), Len(wr.other))),
                              !.c = 1]
    /\ UNCHANGED <<densVars, zVars, rdVars>>
    /\ UNCHANGED <<dxf, run_args, run_err, runLocals, cancel_at, run_prev, cli, gui>>

(* pipeline.py 36-55: the directory of out_las is made, then the shapes    *)
(* are checked, then the cloud is opened.                                  *)
WrCombinedEnter ==
    /\ wr.pc = "call" /\ wr.fn = "_write_combined_las_with_cad_points"
    /\ fs' = [fs EXCEPT !.dirs = @ \cup {"las"}]
    /\ IF Len(wr.other) # Len(wr.pts)
       THEN /\ wr' = [wr EXCEPT !.pc = "ValueError"]
            /\ UNCHANGED <<run_pc, progress_log, mrg>>
       ELSE /\ wr' = [wr EXCEPT !.pc = "entered"]
            /\ run_pc' = "merge_read"
            /\ progress_log' = Prog(<<55>>)
            /\ mrg' = [MrgIdle EXCEPT !.cad_xyz = wr.pts, !.cad_rgbs = wr.other, !.c = 1]
    /\ UNCHANGED <<densVars, zVars, rdVars>>
    /\ UNCHANGED <<dxf, run_args, run_err, runLocals, cancel_at, run_prev, cli, gui>>

InitWriters ==
    /\ DensIdle /\ ZIdle
    /\ rd_bbox = ZeroBBox /\ max_points = NoCap
    /\ rd_pc = "idle" /\ rd_c = 0 /\ rd_xs = <<>> /\ rd_ret = <<>>
    /\ rd_err = NoError /\ rd_calls = 0 /\ rd_prev = <<>>
    /\ dxf = <<>> /\ run_args = ArgsBase /\ run_pc = "idle" /\ run_err = ""
    /\ progress_log = <<>>
    /\ polylines = <<>> /\ poly_layers = <<>> /\ samples = <<>>
    /\ sample_layers = <<>> /\ xy_all = <<>> /\ cad_pts = <<>>
    /\ mrg = MrgIdle /\ cancel_at = "" /\ run_prev = <<>>
    /\ cli = CliIdle /\ gui = GuiIdle
    /\ \E ds \in SUBSET {"xyz", "las"}, n \in 0..MaxArr, m \in 0..MaxArr :
           /\ fs = [NoFiles EXCEPT !.dirs = ds]
           /\ \/ /\ \E fn \in XyzWriters :
                         wr = [pc |-> "call", fn |-> fn, pts |-> WrPoints(n),
                               other |-> WrOther(fn, m), dirs0 |-> ds]
                  /\ las_file = LasFile(<<>>, FALSE, Metre)
              \/ /\ wr = [pc |-> "call", fn |-> "_write_combined_las_with_cad_points",
                           pts |-> WrPoints(n),
                           other |-> WrOther("_write_combined_las_with_cad_points", m),
                           dirs0 |-> ds]
                  /\ las_file \in CloudFiles

NextWriters ==
    \/ WrXyzCall
    \/ WrCombinedEnter
    \/ RunMergeChunk
    \/ RunMergeWrite

SpecWriters == InitWriters /\ [][NextWriters]_vars

----------------------------------------------------------------------------
(* The front-end, cad_boundary_gui.py: on_run starts a thread whose worker *)
(* calls run; the signals of the worker are queued for the main thread,    *)
(* which handles them in the order of their emission.  The progress events *)
(* emitted by a job are the values of progress_log.                        *)

MaxJobs == 2

(* self._layers_selected with self._layer_colors: empty as after           *)
(* MainWindow.__init__, or as the layer dialog leaves them.  _read_state   *)
(* passes list(...) and dict(...) of them, never None.                     *)
GuiLayerChoices ==
    { <<[some |-> TRUE, names |-> {}], [some |-> TRUE, map |-> [ln \in {} |-> <<0, 0, 0>>]]>>,
      <<[some |-> TRUE, names |-> {"A"}],
        [some |-> TRUE, map |-> [ln \in {"A"} |-> <<0, 255, 0>>]]>> }

(* cad_boundary_gui.py 1099-1160 and 326-350: the arguments of run that    *)
(* the window can hold: the modes of z_mode_combo, a cloud path of any     *)
(* extension, the step of step_spin, z_offset 0 in the mode surface_p10;   *)
(* no XYZ output, the merged cloud always (Worker.run_job).                *)
ArgsGui ==
    { [ArgsBase EXCEPT !.out_xyz = FALSE, !.write_combined_las = TRUE, !.out_las = TRUE,
                       !.out_rgb = TRUE, !.write_poly_id = FALSE, !.z_mode = zm,
                       !.z_offset = IF StartsWith(Lower(zm), "surface_p10") THEN 0 ELSE 1,
                       !.cloud_ext = ext,
                       !.layers_selected = lc[1], !.layer_colors = lc[2]]
      : zm \in {"surface_p10", "surface_offset"}, ext \in {".las", ".txt"},
        lc \in GuiLayerChoices }

GuiDrawings == { <<Entity(1)>>, <<Entity(3)>>, <<Entity(1), Entity(2)>> }

GuiClouds == { f \in CloudFiles : Len(f.pts) \in {0, 2} /\ ~f.has_rgb }

(* Without the test of self._thread: not what the code does.               *)
ThreadBusyNever == FALSE

(* if self._thread is not None: return                                     *)
ThreadBusy == gui.thread

(* on_run with no job active, the parameters readable: the thread and the  *)
(* worker are made and the thread started; run_job calls run.              *)
GuiStartJob(a) ==
    /\ gui' = [gui EXCEPT !.thread = TRUE, !.worker = TRUE, !.run_btn = FALSE,
                          !.job = "running", !.final = "", !.seen = 0, !.bar = 0,
                          !.jobs = @ + 1, !.active = @ + 1]
    /\ run_args' = a
    /\ run_pc' = "start" /\ run_err' = "" /\ progress_log' = <<>>
    /\ polylines' = <<>> /\ poly_layers' = <<>> /\ samples' = <<>>
    /\ sample_layers' = <<>> /\ xy_all' = <<>> /\ cad_pts' = <<>>
    /\ mrg' = MrgIdle
    /\ fs' = [NoFiles EXCEPT !.dirs = fs.dirs]
    /\ keys' = <<>> /\ zpc' = "idle" /\ z_i' = 0 /\ last_p' = 0 - 1
    /\ z_prog' = <<>> /\ z_out' = <<>>
    /\ UNCHANGED <<zArgs, dxf, cancel_at, run_prev, cli, wr, densVars, rdVars>>

(* cad_boundary_gui.py 1235-1261: a click on the run button, or any other  *)
(* call of on_run.                                                         *)
GuiOnRun ==
    /\ gui.jobs < MaxJobs
    /\ ~gui.waiting
    /\ IF ThreadBusy
       THEN UNCHANGED vars
       ELSE \/ /\ gui.param_errors < 1
               /\ gui' = [gui EXCEPT !.run_btn = TRUE, !.bar = 0, !.param_errors = @ + 1]
               /\ UNCHANGED <<densVars, zVars, rdVars>>
               /\ UNCHANGED <<dxf, run_args, run_pc, run_err, progress_log, runLocals, fs,
                              mrg, cancel_at, run_prev, cli, wr>>
            \/ \E a \in ArgsGui : GuiStartJob(a)

(* _on_progress: the next progress event of the queue                      *)
GuiOnProgress ==
    /\ gui.seen < Len(progress_log)
    /\ gui.job # "none"
    /\ ~gui.waiting
    /\ gui' = [gui EXCEPT !.seen = @ + 1,
                          !.bar = Max2(0, Min2(100, progress_log[gui.seen + 1]))]
    /\ UNCHANGED <<densVars, zVars, rdVars>>
    /\ UNCHANGED <<dxf, run_args, run_pc, run_err, progress_log, runLocals, fs, mrg,
                   cancel_at, run_prev, cli, wr>>

(* The done or error signal of the last job started is among the emitted   *)
GuiEmitted == \E i \in 1..Len(gui.signals) : gui.signals[i].job = gui.jobs

(* cad_boundary_gui.py 350-354: run has returned and done is emitted, or   *)
(* has raised and error is emitted: the last statement of run_job, which   *)
(* has not returned yet.                                                   *)
GuiJobEmit ==
    /\ gui.job = "running"
    /\ run_pc \in {"Done", "Failed"}
    /\ ~GuiEmitted
    /\ LET sig == IF run_pc = "Done" THEN "done" ELSE "error"
       IN  gui' = [gui EXCEPT !.final = sig,
                              !.signals = Append(@, [job |-> gui.jobs, sig |-> sig])]
    /\ UNCHANGED <<densVars, zVars, rdVars>>
    /\ UNCHANGED <<dxf, run_args, run_pc, run_err, progress_log, runLocals, fs, mrg,
                   cancel_at, run_prev, cli, wr>>

(* cad_boundary_gui.py 354: a call of run_job returns after its emit: the  *)
(* last one started, or an earlier one whose thread the window has let go  *)
(* of before it returned.                                                  *)
GuiJobReturn ==
    /\ \/ /\ gui.job = "running"
          /\ GuiEmitted
          /\ gui' = [gui EXCEPT !.job = "returned", !.active = @ - 1]
       \/ /\ gui.active > (IF gui.job = "running" THEN 1 ELSE 0)
          /\ gui' = [gui EXCEPT !.active = @ - 1]
    /\ UNCHANGED <<densVars, zVars, rdVars>>
    /\ UNCHANGED <<dxf, run_args, run_pc, run_err, progress_log, runLocals, fs, mrg,
                   cancel_at, run_prev, cli, wr>>

(* cad_boundary_gui.py 1274-1296: _on_done or _on_error, handled after the *)
(* events queued before it: the status and the bar, then _cleanup_thread   *)
(* up to self._thread.quit(); the main thread then blocks in               *)
(* self._thread.wait(2000).                                                *)
GuiOnFinal ==
    /\ gui.final # ""
    /\ ~gui.waiting
    /\ gui.seen = Len(progress_log)
    /\ gui' = [gui EXCEPT !.bar = IF gui.final = "done" THEN 100 ELSE @,
                          !.final = "", !.waiting = TRUE,
                          !.handled = Append(@, [job |-> gui.jobs, sig |-> gui.final,
                                                 seen |-> gui.seen,
                                                 emitted |-> Len(progress_log)])]
    /\ UNCHANGED <<densVars, zVars, rdVars>>
    /\ UNCHANGED <<dxf, run_args, run_pc, run_err, progress_log, runLocals, fs, mrg,
                   cancel_at, run_prev, cli, wr>>

(* cad_boundary_gui.py 1296-1300: self._thread.wait(2000) returns, with    *)
(* run_job returned and the thread finished, or after 2000 ms with run_job *)
(* not returned.  What wait returns is not read: either way self._thread   *)
(* and self._worker are cleared and the run button is enabled.  A call of  *)
(* run_job that has not returned stays as it is.                           *)
GuiCleanupThread ==
    /\ gui.waiting
    /\ gui' = [gui EXCEPT !.waiting = FALSE, !.thread = FALSE, !.worker = FALSE,
                          !.run_btn = TRUE,
                          !.job = IF @ = "returned" THEN "none" ELSE @]
    /\ UNCHANGED <<densVars, zVars, rdVars>>
    /\ UNCHANGED <<dxf, run_args, run_pc, run_err, progress_log, runLocals, fs, mrg,
                   cancel_at, run_prev, cli, wr>>

InitGui ==
    /\ dxf \in GuiDrawings
    /\ las_file \in GuiClouds
    /\ run_args = ArgsIdle
    /\ run_pc = "idle" /\ run_err = "" /\ progress_log = <<>>
    /\ polylines = <<>> /\ poly_layers = <<>> /\ samples = <<>>
    /\ sample_layers = <<>> /\ xy_all = <<>> /\ cad_pts = <<>>
    /\ fs = NoFiles /\ mrg = MrgIdle /\ cancel_at = "" /\ run_prev = <<>>
    /\ cli = CliIdle /\ gui = GuiIdle /\ wr = WrIdle
    /\ rd_bbox = ZeroBBox /\ max_points = NoCap
    /\ rd_pc = "idle" /\ rd_c = 0 /\ rd_xs = <<>> /\ rd_ret = <<>>
    /\ rd_err = NoError /\ rd_calls = 0 /\ rd_prev = <<>>
    /\ DensIdle
    /\ \E a \in ArgsGui : \E b \in RunBuilds(a, las_file) : ZIdleOn(b)

NextGui ==
    \/ GuiOnRun
    \/ GuiOnProgress
    \/ GuiJobEmit
    \/ GuiJobReturn
    \/ GuiOnFinal
    \/ GuiCleanupThread
    \/ NextRun

SpecGui == InitGui /\ [][NextGui]_vars

----------------------------------------------------------------------------
(* Properties of the densifier.                                            *)

DensDone == dens.status = "ok" /\ Len(vertices) >= 2 /\ step_m > 0

(* |a - b| <= step in the plane                                            *)
WithinStep(a, b, step) ==
    LET dx == a.x * b.d - b.x * a.d
        dy == a.y * b.d - b.y * a.d
        dd == a.d * b.d
    IN  dx * dx + dy * dy <= step * step * dd * dd

(* b is within step of a point that is within the deduplication tolerance  *)
(* of a on each axis: of a itself, or of a point the loop emitted and the  *)
(* deduplication pass dropped for being that near to a.                    *)
WithinStepUpToEps(a, b, step) ==
    \/ WithinStep(a, b, step)
    \/ LET out == DensifyOut(vertices, step)
       IN  \E j \in 1..Len(out) :
               ~FarApart(a, out[j], EpsFine) /\ WithinStep(out[j], b, step)

(* C1 as stated: for a polyline of at least 2 vertices and step > 0, any   *)
(* two consecutive returned points, the final pair excepted, are at most   *)
(* step apart.                                                             *)
C1_ConsecutiveWithinStep ==
    DensDone =>
        \A i \in 1..(Len(dens.pts) - 2) :
            WithinStep(dens.pts[i], dens.pts[i + 1], step_m)

(* C1 amended: any two consecutive returned points are at most step apart  *)
(* up to the deduplication tolerance: the gap exceeds step by at most 1e-9 *)
(* on each axis.                                                           *)
C1_ConsecutiveWithinStepEps ==
    DensDone =>
        \A i \in 1..(Len(dens.pts) - 1) :
            WithinStepUpToEps(dens.pts[i], dens.pts[i + 1], step_m)

(* A call with step above the tolerance that returned at least 3 points,   *)
(* with a gap longer than step before the final pair.                      *)
C1_Witness ==
    /\ DensDone
    /\ EpsFine.d * step_m > EpsFine.n
    /\ Len(dens.pts) >= 3
    /\ \E i \in 1..(Len(dens.pts) - 2) :
           ~WithinStep(dens.pts[i], dens.pts[i + 1], step_m)

----------------------------------------------------------------------------
(* Properties of the neighbour query and of Z assignment.                  *)

(* The rows a distance filter over the whole cloud keeps.                  *)
BruteForce(cloud, s, r) == { j \in 1..Len(cloud) : WithinRadius(cloud[j], s, r) }

(* C2: for every sample processed, the rows the grid query found (3 x 3    *)
(* cells, then d2 <= r2) are exactly the rows of the whole cloud within    *)
(* the radius of the sample.                                               *)
C2_GridEqualsBruteForce ==
    \A i \in 1..Len(z_out) :
        z_out[i].ids_in = BruteForce(cloud_xyz, samples_xy[i], radius_m)

(* C3: a sample gets fallback_z + offset, by the fallback branch, when no  *)
(* cloud row lies within the radius, and gets a value computed from        *)
(* neighbour elevations whenever some cloud row lies within the radius.    *)
C3_FallbackIffNoNeighbour ==
    \A i \in 1..Len(z_out) :
        IF BruteForce(cloud_xyz, samples_xy[i], radius_m) = {}
        THEN z_out[i].via = "fallback" /\ z_out[i].z = fallback_z + offset * QDen
        ELSE z_out[i].via = "quantile"

----------------------------------------------------------------------------
(* Properties of the bounded reader.                                       *)

(* The number of points of the whole file inside bbox, bounds included.    *)
TotalInBBox ==
    Cardinality({ j \in 1..Len(las_file.pts) :
        LET p == las_file.pts[j]
        IN  /\ p.e = 0
            /\ rd_bbox.minx.n <= p.x * rd_bbox.minx.d
            /\ p.x * rd_bbox.maxx.d <= rd_bbox.maxx.n
            /\ rd_bbox.miny.n <= p.y * rd_bbox.miny.d
            /\ p.y * rd_bbox.maxy.d <= rd_bbox.maxy.n })

(* C4: a call with max_points set that returns, returns exactly            *)
(* min(total_in_bbox, max_points) rows.                                    *)
C4_ExactCount ==
    (rd_pc = "done" /\ max_points.some) =>
        Len(rd_ret) = Min2(TotalInBBox, max_points.n)

(* A capped call that stopped reading before the last chunk, kept more     *)
(* rows than the cap and returned the cap's number of rows.                *)
C4_Witness ==
    /\ rd_pc = "done" /\ max_points.some /\ max_points.n >= 1
    /\ rd_c < NChunks(las_file)
    /\ Len(rd_xs) > max_points.n
    /\ TotalInBBox > Len(rd_xs)
    /\ Len(rd_ret) = max_points.n

(* C5: a second call with the same file, bbox and max_points ends as the   *)
(* first did: the same rows in the same order, or the same error.          *)
C5_SameResultOnRepeat ==
    (rd_calls >= 2 /\ rd_pc \in {"done", "ValueError"}) =>
        rd_prev = <<[pc |-> rd_pc, ret |-> rd_ret, err |-> rd_err]>>

(* A second call that subsampled, after a first call that did.             *)
C5_Witness ==
    /\ rd_calls = 2 /\ rd_pc = "done"
    /\ max_points.some /\ max_points.n >= 1
    /\ Len(rd_xs) > max_points.n
    /\ rd_prev[1].pc = "done"
    /\ rd_ret # SubSeq(rd_xs, 1, max_points.n)

----------------------------------------------------------------------------
(* Properties of a pipeline run.                                           *)

(* The reader was called by the run and no point of the file lies inside   *)
(* the bbox it was given.                                                  *)
NoneInBBox == rd_calls >= 1 /\ TotalInBBox = 0

(* C6: when no point of the cloud file lies inside the bbox of the call,   *)
(* read_las_points_in_bbox does not return (an empty array or any other):  *)
(* it raises, the error holding the bbox of the call and the extent of the *)
(* file; the run then goes nowhere but to its failed end, and neither      *)
(* output file is written.                                                 *)
C6_UnalignedRaisesNothingWritten ==
    NoneInBBox =>
        /\ rd_pc # "done"
        /\ rd_pc = "ValueError" =>
               /\ rd_err.kind = "unaligned"
               /\ rd_err.boundary_bbox = rd_bbox
               /\ rd_err.las_bbox = LasBBox(las_file)
        /\ run_pc \in {"reading", "Failed"}
        /\ run_pc = "Failed" => rd_pc = "ValueError"
        /\ ~fs.xyz.exists /\ ~fs.las.exists

(* A run over a cloud file with points, none of them in the bbox of the    *)
(* samples, that has failed on the reader's error.                         *)
C6_Witness ==
    /\ NoneInBBox
    /\ Len(las_file.pts) >= 2
    /\ run_args.out_xyz /\ run_args.write_combined_las /\ run_args.out_las
    /\ run_pc = "Failed"
    /\ rd_err.kind = "unaligned"

(* X * scale is a value of the grid of the scale nearest to n / d: off by  *)
(* at most half the scale.                                                 *)
NearestOnGrid(X, n, d, scale) ==
    2 * Abs(X * scale.n * d - n * scale.d) <= scale.n * d

(* C7: the merged file holds every point of the whole cloud file, in the   *)
(* order of the file and at its position, and after them the output points *)
(* of the run, in their order, each at the position the scale of the file  *)
(* can hold nearest to it: (points of the file) + (output points) rows.    *)
C7_MergedIsCloudThenCad ==
    fs.las.exists =>
        LET n == Len(las_file.pts)
            rows == fs.las.rows
            sc == fs.las.scales
        IN  /\ Len(rows) = n + Len(cad_pts)
            /\ sc = las_file.scales /\ fs.las.offsets = <<0, 0, 0>>
            /\ \A j \in 1..n :
                   /\ rows[j].X * sc[1].n = las_file.pts[j].x * sc[1].d
                   /\ rows[j].Y * sc[2].n = las_file.pts[j].y * sc[2].d
                   /\ rows[j].Z * sc[3].n = las_file.pts[j].z * sc[3].d
            /\ \A j \in 1..Len(cad_pts) :
                   /\ NearestOnGrid(rows[n + j].X, cad_pts[j].x, cad_pts[j].d, sc[1])
                   /\ NearestOnGrid(rows[n + j].Y, cad_pts[j].y, cad_pts[j].d, sc[2])
                   /\ NearestOnGrid(rows[n + j].Z, cad_pts[j].z, QDen, sc[3])

(* A merged file written by a run that had read the cloud through a bbox   *)
(* holding only some of its points and through a cap, the file being read  *)
(* in at least 2 chunks.                                                   *)
C7_Witness ==
    /\ fs.las.exists
    /\ NChunks(las_file) >= 2
    /\ max_points.some
    /\ TotalInBBox < Len(las_file.pts)
    /\ Len(cloud_xyz) < TotalInBBox
    /\ Len(cad_pts) >= 2

(* The colour the run passes for sample i.                                 *)
ColourPassed(i) ==
    LET ln == poly_layers[samples[i].poly_id + 1]
    IN  IF run_args.all_layers_one_color \/ ~run_args.layer_colors.some
        THEN run_args.rgb
        ELSE IF ln \in DOMAIN run_args.layer_colors.map
             THEN run_args.layer_colors.map[ln]
             ELSE run_args.rgb

(* C8: in the merged file, a point of the cloud file is black when the     *)
(* file stores no colours and keeps its colour when it does, and an output *)
(* point has the 8-bit colour passed for it, on the 16-bit scale of the    *)
(* file (component c stored as 257 * c).                                   *)
C8_MergedColours ==
    fs.las.exists =>
        LET n == Len(las_file.pts)
            rows == fs.las.rows
        IN  /\ \A j \in 1..n :
                   rows[j].rgb = IF las_file.has_rgb THEN las_file.pts[j].rgb
                                 ELSE <<0, 0, 0>>
            /\ \A j \in 1..(Len(rows) - n) :
                   /\ rows[n + j].rgb = <<257 * mrg.cad_rgbs[j][1],
                                          257 * mrg.cad_rgbs[j][2],
                                          257 * mrg.cad_rgbs[j][3]>>
                   /\ mrg.cad_rgbs[j] = ColourPassed(j)

(* A merged file of a cloud without colours of at least 2 points and of    *)
(* at least 3 output points passed the colour (255, 0, 0).                 *)
C8_Witness ==
    /\ fs.las.exists
    /\ ~las_file.has_rgb
    /\ Len(las_file.pts) >= 2
    /\ Len(cad_pts) >= 3
    /\ \A j \in 1..Len(cad_pts) : mrg.cad_rgbs[j] = <<255, 0, 0>>

(* The positions in `samples` of the samples of polyline number p          *)
(* (counted from 1), ascending.                                            *)
SamplesOf(p) == SelectSeq(samples, LAMBDA q : q.poly_id = p - 1)

(* The linework of the drawing that the arguments select, in the order of  *)
(* the modelspace.                                                         *)
Extracted ==
    SelectSeq(dxf, LAMBDA e :
        /\ IsLinework(e)
        /\ IF run_args.layer_colors.some \/ run_args.layers_selected.some
           THEN run_args.layers_selected.names \ {""} = {}
                \/ e.layer \in run_args.layers_selected.names
           ELSE run_args.layer = "" \/ e.layer = run_args.layer)

(* The samples are those of the polylines one after the other in the order *)
(* of extraction, each polyline's in the order densify_polyline returns.   *)
SamplesInOrder ==
    /\ Len(polylines) = Len(Extracted)
    /\ \A p \in 1..Len(polylines) : polylines[p] = Extracted[p].verts
    /\ \A i \in 1..Len(samples), j \in 1..Len(samples) :
           i < j => samples[i].poly_id <= samples[j].poly_id
    /\ \A i \in 1..Len(samples) : samples[i].poly_id \in 0..(Len(polylines) - 1)
    /\ \A p \in 1..Len(polylines) :
           LET r == densify_polyline(polylines[p], run_args.step_m, EpsMetre).pts
               got == SamplesOf(p)
           IN  /\ Len(got) = Len(r)
               /\ \A j \in 1..Len(r) :
                      /\ got[j].x = r[j].x /\ got[j].y = r[j].y /\ got[j].d = r[j].d
                      /\ got[j].fx = r[j].fx /\ got[j].fy = r[j].fy

(* The position of sample i in the CRS of the cloud.                       *)
PositionOf(i) == SampleXY(samples[i], RunTransformer(run_args))

(* What surface_z_from_neighbors can give the position of sample i on the  *)
(* build of the run.                                                       *)
ZOfSample(i) ==
    { SampleZ(cloud_xyz, keys, PositionOf(i), radius_m, quantile, fallback_z, offset, used)
      : used \in UsedSets(build.part, cloud_xyz, keys, PositionOf(i), radius_m, z_k) }

(* C9: the samples are in the order of the polylines and of the            *)
(* densification; line i of the XYZ file and output point i of the merged  *)
(* file are sample i, at its position in the CRS of the cloud (as "%.3f"   *)
(* prints it, as the scale of the merged file stores it), with the Z       *)
(* assigned to sample i and the colour of the layer of sample i.           *)
C9_OutputInSampleOrder ==
    /\ run_pc \notin {"start", "densify", "Failed"} => SamplesInOrder
    /\ fs.xyz.exists =>
           /\ Len(fs.xyz.rows) = Len(samples)
           /\ \A i \in 1..Len(samples) :
                  /\ fs.xyz.rows[i].x = Fmt3(PositionOf(i).x, PositionOf(i).d, PositionOf(i).fx)
                  /\ fs.xyz.rows[i].y = Fmt3(PositionOf(i).y, PositionOf(i).d, PositionOf(i).fy)
                  /\ \E r \in ZOfSample(i) :
                         fs.xyz.rows[i].z = Fmt3Of(r.z, QDen, ZFloat(r.fz))
                  /\ fs.xyz.layout = "xyzrgb" => fs.xyz.rows[i].extra = ColourPassed(i)
    /\ fs.las.exists =>
           LET n == Len(las_file.pts)
           IN  /\ Len(fs.las.rows) = n + Len(samples)
               /\ \A i \in 1..Len(samples) :
                      /\ fs.las.rows[n + i].X =
                             Stored(PositionOf(i).x, PositionOf(i).d, PositionOf(i).fx,
                                    fs.las.scales[1], 0)
                      /\ fs.las.rows[n + i].Y =
                             Stored(PositionOf(i).y, PositionOf(i).d, PositionOf(i).fy,
                                    fs.las.scales[2], 0)
                      /\ \E r \in ZOfSample(i) :
                             fs.las.rows[n + i].Z =
                                 StoredOf(r.z, QDen, ZFloat(r.fz), fs.las.scales[3], 0)
                      /\ fs.las.rows[n + i].rgb = <<257 * ColourPassed(i)[1],
                                                    257 * ColourPassed(i)[2],
                                                    257 * ColourPassed(i)[3]>>

(* A finished run that reprojected the drawing and wrote both files from 2 *)
(* polylines on layers of different colours, the samples not all at one    *)
(* elevation.                                                              *)
C9_Witness ==
    /\ run_pc = "Done" /\ fs.xyz.exists /\ fs.las.exists
    /\ fs.xyz.layout = "xyzrgb"
    /\ Len(polylines) >= 2 /\ Len(SamplesOf(1)) >= 3 /\ Len(SamplesOf(2)) >= 2
    /\ RunTransformer(run_args).some
    /\ \E i \in 1..Len(samples) :
           PositionOf(i).x * samples[i].d # samples[i].x * PositionOf(i).d
    /\ \E i \in 1..Len(samples), j \in 1..Len(samples) :
           /\ ColourPassed(i) # ColourPassed(j)
           /\ z_out[i].z # z_out[j].z

(* C10: once the caller has asked to cancel a run that was in one of its   *)
(* loops, the run does not complete: it ends, and with the outcome         *)
(* Cancelled.                                                              *)
C10_CancelStopsRun ==
    cancel_at # "" =>
        /\ run_pc # "Done"
        /\ run_pc = "Failed" => run_err = "Cancelled"

(* C11: the percents passed to the progress callback in a run never        *)
(* decrease.                                                               *)
C11_ProgressNonDecreasing ==
    \A i \in 1..Len(progress_log), j \in 1..Len(progress_log) :
        i < j => progress_log[i] <= progress_log[j]

(* A finished run that wrote both outputs, reported the Z loop more than   *)
(* once and read the cloud for the merged file in at least 2 chunks.       *)
C11_Witness ==
    /\ run_pc = "Done" /\ fs.xyz.exists /\ fs.las.exists
    /\ Len(z_prog) >= 3
    /\ NChunks(las_file) >= 2
    /\ Len(progress_log) >= 12

(* C12: a run that has failed has written neither the file at out_xyz nor  *)
(* the file at out_las.                                                    *)
C12_FailureLeavesNoFile ==
    run_pc = "Failed" => ~fs.xyz.exists /\ ~fs.las.exists

(* The Z modes of the interface.                                           *)
ZModes == {"surface_p10", "surface_offset", "p95", "median"}

(* C13: a run given one of the four Z modes of the interface, in any case  *)
(* of its letters, does not fail with the error of an unsupported mode.    *)
C13_EveryModeAccepted ==
    Lower(run_args.z_mode) \in ZModes => run_err # "ValueError: unsupported z_mode"

(* radius <= 0, k <= 0 or quantile outside [0, 1] among the arguments of   *)
(* the run.                                                                *)
BadZArgs ==
    \/ run_args.z_radius_m <= 0
    \/ run_args.z_k <= 0
    \/ run_args.z_quantile < 0
    \/ run_args.z_quantile > QDen

(* C14: with radius <= 0, k <= 0 or quantile outside [0, 1],               *)
(* surface_z_from_neighbors raises before it processes a sample, and the   *)
(* run does not complete and writes neither output file.                   *)
C14_BadZArgsRejected ==
    (BadZArgs /\ run_pc \notin {"idle", "start"}) =>
        /\ zpc \in {"idle", "call", "ValueError"}
        /\ z_out = <<>>
        /\ run_pc \in {"densify", "reading", "zassign", "Failed"}
        /\ ~fs.xyz.exists /\ ~fs.las.exists

(* A run with such an argument, over a cloud with points near the samples, *)
(* that failed on the error surface_z_from_neighbors raised.               *)
C14_Witness ==
    /\ BadZArgs
    /\ run_args.out_xyz /\ run_args.write_combined_las /\ run_args.out_las
    /\ Len(cloud_xyz) >= 2 /\ Len(samples_xy) >= 2
    /\ zpc = "ValueError"
    /\ run_pc = "Failed"

(* C15: a call of densify_polyline with step <= 0 raises, whatever the     *)
(* polyline.                                                               *)
C15_NonPositiveStepRaises ==
    (dens.status # "idle" /\ step_m <= 0) => dens.status = "ValueError"

(* C16: for a polyline of at least 2 vertices and step > 0, the last point *)
(* returned is the final vertex: same x, same y, same z.                   *)
C16_LastIsFinalVertex ==
    DensDone =>
        LET last == dens.pts[Len(dens.pts)]
            fin == vertices[Len(vertices)]
        IN  /\ last.x = fin.x * last.d /\ last.y = fin.y * last.d
            /\ last.hasz = fin.hasz
            /\ last.hasz => last.z = fin.z * last.d

(* C17: over the candidates used for a sample, the quantile never          *)
(* decreases when the quantile parameter grows (from each parameter        *)
(* 0, 1/QDen, ... to the next), is the least candidate elevation at 0 and  *)
(* the greatest at 1; the Z assigned is the quantile at the parameter of   *)
(* the call, plus the offset.                                              *)
C17_QuantileMonotone ==
    \A i \in 1..Len(z_out) :
        z_out[i].via = "quantile" =>
            LET zs == SortedZ(cloud_xyz, z_out[i].used)
            IN  /\ z_out[i].z = Quantile(zs, quantile) + offset * QDen
                /\ \A q1 \in 0..(QDen - 1) : Quantile(zs, q1) <= Quantile(zs, q1 + 1)
                /\ \A a \in z_out[i].used :
                       /\ Quantile(zs, 0) <= QDen * cloud_xyz[a].z
                       /\ Quantile(zs, QDen) >= QDen * cloud_xyz[a].z
                /\ \E a \in z_out[i].used : Quantile(zs, 0) = QDen * cloud_xyz[a].z
                /\ \E a \in z_out[i].used : Quantile(zs, QDen) = QDen * cloud_xyz[a].z

(* A sample with at least 3 candidates, not all at one elevation, in a     *)
(* call with quantile 1.                                                   *)
C17_Witness ==
    /\ quantile = QDen
    /\ \E i \in 1..Len(z_out) :
           /\ Cardinality(z_out[i].used) >= 3
           /\ \E a \in z_out[i].used, b \in z_out[i].used :
                  cloud_xyz[a].z < cloud_xyz[b].z
           /\ z_out[i].z > Quantile(SortedZ(cloud_xyz, z_out[i].used), 10)

----------------------------------------------------------------------------
(* Properties of the end-to-end scenario.                                  *)

(* Row a of the array read is within the radius of sample s and no row     *)
(* within the radius is nearer to s.                                       *)
NearestInRadius(a, s) ==
    /\ WithinRadius(cloud_xyz[a], s, radius_m)
    /\ \A b \in 1..Len(cloud_xyz) :
           WithinRadius(cloud_xyz[b], s, radius_m) => D2(cloud_xyz[a], s) <= D2(cloud_xyz[b], s)

----------------------------------------------------------------------------
(* Properties of the colours.                                              *)

(* The layer, in the drawing, of the entity sample i was densified from.   *)
SourceLayer(i) == Extracted[samples[i].poly_id + 1].layer

(* The colour the arguments give sample i: that of its layer where a       *)
(* mapping is given, holds the layer, and one colour for all is not asked  *)
(* for; the global colour otherwise.                                       *)
LayerColour(i) ==
    IF /\ run_args.layer_colors.some
       /\ ~run_args.all_layers_one_color
       /\ SourceLayer(i) \in DOMAIN run_args.layer_colors.map
    THEN run_args.layer_colors.map[SourceLayer(i)]
    ELSE run_args.rgb

(* C19: every line of an XYZ+RGB file and every output point of a merged   *)
(* file carries the colour mapped to the layer of its source polyline when *)
(* a mapping is given and holds that layer, and the global colour          *)
(* otherwise; the two outputs of one run carry the same colours.           *)
C19_LayerColourInBothOutputs ==
    /\ (fs.xyz.exists /\ fs.xyz.layout = "xyzrgb") =>
           \A i \in 1..Len(fs.xyz.rows) : fs.xyz.rows[i].extra = LayerColour(i)
    /\ fs.las.exists =>
           LET n == Len(las_file.pts)
           IN  \A i \in 1..(Len(fs.las.rows) - n) :
                   \A c \in 1..3 : fs.las.rows[n + i].rgb[c] = 257 * LayerColour(i)[c]
    /\ (fs.xyz.exists /\ fs.xyz.layout = "xyzrgb" /\ fs.las.exists) =>
           LET n == Len(las_file.pts)
           IN  /\ Len(fs.las.rows) - n = Len(fs.xyz.rows)
               /\ \A i \in 1..Len(fs.xyz.rows) :
                      \A c \in 1..3 : fs.las.rows[n + i].rgb[c] = 257 * fs.xyz.rows[i].extra[c]

(* A finished run with a mapping that wrote both outputs, one sample on a  *)
(* layer the mapping holds and one on a layer it does not hold.            *)
C19_Witness ==
    /\ run_pc = "Done"
    /\ fs.xyz.exists /\ fs.xyz.layout = "xyzrgb" /\ fs.las.exists
    /\ run_args.layer_colors.some /\ ~run_args.all_layers_one_color
    /\ \E i, j \in 1..Len(samples) :
           /\ SourceLayer(i) \in DOMAIN run_args.layer_colors.map
           /\ SourceLayer(j) \notin DOMAIN run_args.layer_colors.map
           /\ fs.xyz.rows[i].extra # fs.xyz.rows[j].extra

(* C20: when the scalar-field output is asked for with an XYZ path, the    *)
(* XYZ file a successful run leaves has the layout x y z sf.               *)
C20_SfLayoutLeft ==
    (run_pc = "Done" /\ run_args.write_sf /\ run_args.out_xyz) =>
        (fs.xyz.exists /\ fs.xyz.layout = "xyz_sf")

----------------------------------------------------------------------------
(* Properties of the command line.                                         *)

(* C21: every keyword argument main passes is a parameter of run, and a    *)
(* command line with valid arguments reaches the stages of run: the call   *)
(* does not fail.                                                          *)
C21_CliReachesRun ==
    /\ cli.pc \in {"call", "run", "TypeError"} => DOMAIN cli.kw \subseteq RunParams
    /\ cli.pc # "TypeError"

----------------------------------------------------------------------------
(* Properties of the writers called on their own.                          *)

(* The arrays handed to the writer differ in length.                       *)
WrMismatch == Len(wr.pts) # Len(wr.other)

(* C22 as stated: a writer handed arrays of different lengths raises, and  *)
(* has then written nothing: no file, no directory, and nothing of the     *)
(* cloud was read.                                                         *)
C22_MismatchRaisesNothingWritten ==
    (wr.pc # "call" /\ wr.pc # "idle" /\ WrMismatch) =>
        /\ wr.pc = "ValueError"
        /\ ~fs.xyz.exists /\ ~fs.las.exists
        /\ mrg.read_count = 0 /\ run_pc = "idle"
        /\ fs.dirs = wr.dirs0

(* C22 amended: a writer handed arrays of different lengths raises, having *)
(* written no file and read nothing of the cloud; an XYZ writer has not    *)
(* made the directory of its path either, the merged writer has.           *)
C22_MismatchRaisesNoFile ==
    (wr.pc # "call" /\ wr.pc # "idle" /\ WrMismatch) =>
        /\ wr.pc = "ValueError"
        /\ ~fs.xyz.exists /\ ~fs.las.exists
        /\ mrg.read_count = 0 /\ run_pc = "idle" /\ progress_log = <<>>
        /\ wr.fn \in XyzWriters => fs.dirs = wr.dirs0
        /\ wr.fn \notin XyzWriters => fs.dirs = wr.dirs0 \cup {"las"}

(* The merged writer has raised on arrays of different lengths where the   *)
(* directory of out_las did not exist.                                     *)
C22_Witness ==
    /\ wr.pc = "ValueError" /\ WrMismatch
    /\ Len(wr.pts) > 0 /\ Len(wr.other) > 0
    /\ wr.fn \notin XyzWriters /\ "las" \notin wr.dirs0 /\ Len(las_file.pts) >= 2

----------------------------------------------------------------------------
(* Properties of the neighbour cap.                                        *)

(* C23: for every sample processed, when more than k rows of the cloud lie *)
(* within the radius exactly k are used for the quantile, all within the   *)
(* radius and no unused row within the radius strictly nearer than a used  *)
(* one; when at most k lie within the radius, all of them are used.        *)
C23_KNearestUsed ==
    \A i \in 1..Len(z_out) :
        LET within == BruteForce(cloud_xyz, samples_xy[i], radius_m)
            used == z_out[i].used
        IN  IF Cardinality(within) > z_k
            THEN /\ Cardinality(used) = z_k
                 /\ used \subseteq within
                 /\ \A a \in within \ used, b \in used :
                        D2(cloud_xyz[a], samples_xy[i]) >= D2(cloud_xyz[b], samples_xy[i])
            ELSE used = within

----------------------------------------------------------------------------
(* Properties of the order of the stages.                                  *)

(* The place of a position of run in the order of its stages: extraction,  *)
(* densification with the bounding box, the read of the cloud, the Z       *)
(* assignment, the outputs one after the other, the return.                *)
PcRank(pc) ==
    CASE pc = "start" -> 1
      [] pc = "densify" -> 2
      [] pc = "reading" -> 3
      [] pc = "zassign" -> 4
      [] pc = "write_sf" -> 5
      [] pc = "write_xyz" -> 6
      [] pc = "merge" -> 7
      [] pc = "merge_read" -> 8
      [] pc = "Done" -> 9
      [] OTHER -> 0

(* A step of a run: run never goes back to an earlier stage, leaves Done   *)
(* and Failed no more, raises exactly when it fails, and what a stage      *)
(* computes changes in that stage only.                                    *)
StagesForward ==
    /\ run_pc \in {"Done", "Failed"} => run_pc' = run_pc
    /\ run_pc' # "Failed" => PcRank(run_pc') >= PcRank(run_pc)
    /\ (run_pc' = "Failed") = (run_err' # "")
    /\ <<polylines, poly_layers>>' # <<polylines, poly_layers>> => run_pc = "start"
    /\ <<samples, sample_layers, xy_all>>' # <<samples, sample_layers, xy_all>> =>
           run_pc = "densify"
    /\ rd_bbox' # rd_bbox => run_pc = "densify"
    /\ rd_pc' # rd_pc => (run_pc = "densify" /\ rd_pc' = "call") \/ run_pc = "reading"
    /\ cloud_xyz' # cloud_xyz => run_pc = "reading" /\ rd_pc = "done"
    /\ zpc' # zpc => (run_pc = "reading" /\ zpc' = "call") \/ run_pc = "zassign"
    /\ z_out' # z_out => run_pc = "zassign"
    /\ cad_pts' # cad_pts => run_pc = "zassign" /\ zpc = "done"
    /\ fs' # fs => run_pc \in {"write_sf", "write_xyz", "merge", "merge_read"}
    /\ run_pc' = "Done" => run_pc \in {"merge", "merge_read", "Done"}

(* A step that resolves the colours of the output points: for the XYZ+RGB  *)
(* file, or for the merged cloud.                                          *)
ColourStep ==
    \/ run_pc = "write_xyz" /\ run_args.out_xyz /\ run_args.out_rgb
    \/ run_pc = "merge" /\ run_pc' = "merge_read"

(* A step that writes an output file.                                      *)
WriteStep == fs'.xyz # fs.xyz \/ fs'.las # fs.las

(* C24 as stated: the stages run in the one order Extracting, Densifying,  *)
(* BoundsComputed, CloudLoaded, ZAssigned, ColorResolved, Written, Done,   *)
(* each at most once: once an output is written, no colour is resolved and *)
(* no output written any more; a failure ends the run in Failed.           *)
C24_StagesOnceInOrder ==
    [][ /\ StagesForward
        /\ ColourStep => ~fs.xyz.exists /\ ~fs.las.exists
        /\ WriteStep => ~fs.xyz.exists /\ ~fs.las.exists ]_vars

(* C24 amended: the stages up to ZAssigned run once each in their order,   *)
(* then the outputs asked for are produced one after the other (scalar     *)
(* field, XYZ, merged cloud), the colours resolved anew for each; a        *)
(* failure ends the run in Failed, after which nothing runs, and a run     *)
(* never is both Done and Failed.                                          *)
C24_StagesForward == [][StagesForward]_vars

(* A finished run that resolved the colours twice and wrote twice: an      *)
(* XYZ+RGB file and a merged cloud.                                        *)
C24_Witness ==
    /\ run_pc = "Done"
    /\ fs.xyz.exists /\ fs.xyz.layout = "xyzrgb" /\ fs.las.exists
    /\ Len(cad_pts) >= 3 /\ Len(cloud_xyz) >= 2

----------------------------------------------------------------------------
(* Properties of the fallback elevation.                                   *)

(* C25: once the cloud is loaded, fallback_z is the statistic of the       *)
(* elevations of the array read that the mode names, the median in the     *)
(* relief-following modes and the 95th percentile in the mode p95, and the *)
(* neighbour query gets the radius, k and quantile of the arguments        *)
(* whatever the mode.                                                      *)
C25_FallbackByMode ==
    (run_pc \in {"zassign", "write_sf", "write_xyz", "merge", "merge_read", "Done"}
     /\ cloud_xyz # <<>>) =>
        /\ fallback_z = IF Lower(run_args.z_mode) = "p95"
                        THEN pick_constant_z(cloud_xyz, "p95", 0).z
                        ELSE pick_constant_z(cloud_xyz, "median", 0).z
        /\ radius_m = run_args.z_radius_m /\ z_k = run_args.z_k
        /\ quantile = run_args.z_quantile

----------------------------------------------------------------------------
(* Properties of the query window.                                         *)

(* The planar position and elevation of a row.                             *)
RowXYZ(row) == <<row.e, row.x, row.y, row.z>>

(* C26: in a run without a point cap, for every sample processed, every    *)
(* point of the cloud file within the search radius of the sample is among *)
(* the neighbour candidates of the sample.                                 *)
C26_NoNeighbourLostByWindow ==
    (run_pc \in {"zassign", "write_sf", "write_xyz", "merge", "merge_read", "Done"}
     /\ run_args.las_max_points = NoCap) =>
        \A i \in 1..Len(z_out) :
            \A j \in 1..Len(las_file.pts) :
                WithinRadius(las_file.pts[j], samples_xy[i], radius_m) =>
                    \E a \in z_out[i].ids_in : RowXYZ(cloud_xyz[a]) = RowXYZ(las_file.pts[j])

----------------------------------------------------------------------------
(* Properties of the cell keys.                                            *)

(* C27: once the keys of the cloud are computed, a cloud row and a sample  *)
(* have the same key exactly when they have the same pair of cell indices  *)
(* floor(x / cell), floor(y / cell): equal cells give equal keys and       *)
(* different cells different keys, for negative indices and for indices    *)
(* outside the signed 32-bit range too.                                    *)
C27_KeyConsistentInjective ==
    zpc \in {"loop", "done"} =>
        \A j \in 1..Len(cloud_xyz), i \in 1..Len(samples_xy) :
            LET p == cloud_xyz[j]
                s == samples_xy[i]
                pcx == CellIndex(p.e, p.x, 1, Whole(p.x), radius_m)
                pcy == CellIndex(0, p.y, 1, Whole(p.y), radius_m)
                scx == CellIndex(s.e, s.x, s.d, s.fx, radius_m)
                scy == CellIndex(0, s.y, s.d, s.fy, radius_m)
            IN  (pcx = scx /\ pcy = scy) <=> (keys[j] = QueryKey(scx, scy))

----------------------------------------------------------------------------
(* Properties of the parallel sequences.                                   *)

LengthErrors ==
    {"ValueError: sf length", "ValueError: length", "ValueError: cad_rgbs_u8 length"}

(* The lengths from the coordinates on: xy_all once built (reprojected or  *)
(* not), the array handed to the neighbour query, the Z values once        *)
(* assigned, the output points and their colours once built, the lines of  *)
(* the XYZ file and the arrays handed to the merged writer, all as many as *)
(* the samples; and no writer has raised for a length mismatch.            *)
LengthsDownstream ==
    /\ xy_all # <<>> => Len(xy_all) = Len(samples)
    /\ run_pc \in {"reading", "zassign", "write_sf", "write_xyz", "merge", "merge_read",
                   "Done"} => Len(xy_all) = Len(samples)
    /\ (run_pc = "zassign" /\ zpc \in {"loop", "done"}) => Len(samples_xy) = Len(samples)
    /\ (run_pc = "zassign" /\ zpc = "done") => Len(z_out) = Len(samples)
    /\ run_pc \in {"write_sf", "write_xyz", "merge", "merge_read", "Done"} =>
           /\ Len(z_out) = Len(samples)
           /\ Len(cad_pts) = Len(samples)
           /\ Len(LayerRgbs) = Len(cad_pts)
    /\ fs.xyz.exists => Len(fs.xyz.rows) = Len(samples)
    /\ run_pc = "merge_read" \/ fs.las.exists =>
           Len(mrg.cad_xyz) = Len(samples) /\ Len(mrg.cad_rgbs) = Len(samples)
    /\ run_err \notin LengthErrors

(* C28 as stated: in every state of a run the per-sample sequences have    *)
(* one length: samples and their layer tags; their coordinates once built, *)
(* reprojected or not; the Z values once assigned; the output points and   *)
(* their colours once built; the lines of the XYZ file and the arrays      *)
(* handed to the merged writer.  No writer raises for a length mismatch.   *)
C28_ParallelLengths ==
    /\ Len(sample_layers) = Len(samples)
    /\ LengthsDownstream

(* C28 amended: the same, but inside one iteration of the sampling loop,   *)
(* between the append to samples (pipeline.py 201) and the append to       *)
(* sample_layers (202), samples is one element longer than sample_layers;  *)
(* the two have one length in every other state.                           *)
C28_ParallelLengthsBetweenAppends ==
    /\ \/ Len(sample_layers) = Len(samples)
       \/ run_pc = "densify" /\ xy_all = <<>> /\ Len(samples) = Len(sample_layers) + 1
    /\ LengthsDownstream

(* A finished run over 2 polylines of more samples than polylines that     *)
(* reprojected the samples, coloured them by layer and wrote both outputs. *)
C28_Witness ==
    /\ run_pc = "Done" /\ fs.xyz.exists /\ fs.las.exists
    /\ ~OneColor /\ run_args.out_rgb
    /\ RunTransformer(run_args).some
    /\ xy_all[Len(xy_all)].x * samples[Len(samples)].d
           # samples[Len(samples)].x * xy_all[Len(xy_all)].d
    /\ Len(polylines) = 2 /\ Len(samples) >= 5
    /\ Len(sample_layers) = Len(samples) /\ Len(xy_all) = Len(samples)
    /\ Len(mrg.cad_rgbs) = Len(samples)

----------------------------------------------------------------------------
(* Properties of the last progress value.                                  *)

(* C30: a run with a progress callback that returns normally has reported  *)
(* 100 as its last progress value, whichever outputs were asked for, and a *)
(* run that failed has not reported 100.                                   *)
C30_EndsWithHundred ==
    /\ (run_pc = "Done" /\ run_args.progress) =>
           /\ progress_log # <<>>
           /\ progress_log[Len(progress_log)] = 100
    /\ run_pc = "Failed" => \A i \in 1..Len(progress_log) : progress_log[i] # 100

----------------------------------------------------------------------------
(* Properties of the front-end.                                            *)

====
